---- MODULE Spec2Model ----
(***************************************************************************)
(* A model of goobie-mysql.                                                *)
(*                                                                         *)
(* The repository holds two connection designs side by side:               *)
(*                                                                         *)
(*  - the command handlers conn/query.rs, conn/connect.rs,                 *)
(*    conn/disconnect.rs and conn/ping.rs, which work on an exclusively    *)
(*    borrowed `&mut Option<MySqlConnection>` and a shared ConnMeta        *)
(*    (state, id, task_queue).  They are driven by a per-connection        *)
(*    command loop.  Specification: Spec (FairSpec with fairness).         *)
(*                                                                         *)
(*  - conn/mod.rs and conn/transaction.rs, where every host call spawns    *)
(*    its own worker task and the tasks share the connection through       *)
(*    `Arc<Mutex<Option<MySqlConnection>>>`.  Specification: LockSpec.     *)
(***************************************************************************)
EXTENDS Integers, Sequences, FiniteSets, TLC

\* ------------------------------------------------------------------------
\* Bounds of the model
\* ------------------------------------------------------------------------

\* Commands the host submits to one connection's command channel.
MaxCmds == 3

\* Calls into the module for one connection and its transactions, by the
\* host script and by the collector (__gc), those refused at once not
\* counted.
MaxCalls == 3

\* Worker threads the host may configure for the runtime.
MaxWorkers == 2

\* ------------------------------------------------------------------------
\* Program constants
\* ------------------------------------------------------------------------

\* conn/query.rs:111  `for _ in 0..7`
ReconnectAttempts == 7

\* conn/query.rs:109  `let mut delay = Duration::from_secs(2)`
FirstDelay == 2

\* conn/query.rs:113  `delay += Duration::from_secs(1)`
DelayStep == 1

\* constants.rs:29
DEFAULT_WORKER_THREADS == 1

\* lauxlib's LUA_NOREF, the reference that names nothing (conn/connect.rs:39)
LUA_NOREF == -2

\* Option<MySqlConnection>
None == <<>>
Some(c) == <<c>>

\* ------------------------------------------------------------------------
\* Errors and their classification (conn/query.rs: should_reconnect)
\* ------------------------------------------------------------------------

\* An error value: `variant` is the sqlx::Error variant ("NotSqlx" when the
\* anyhow error does not downcast to sqlx::Error), `kind` the io::ErrorKind,
\* `msg` the TLS error text as a sequence of phrases, `mysql` whether the
\* database error downcasts to MySqlDatabaseError, `code` its number.
Err(variant, kind, msg, mysql, code) ==
    [variant |-> variant, kind |-> kind, msg |-> msg, mysql |-> mysql, code |-> code]

IoErr(kind) == Err("Io", kind, <<>>, FALSE, 0)
TlsErr(msg) == Err("Tls", "-", msg, FALSE, 0)
DbErr(code) == Err("Database", "-", <<>>, TRUE, code)
NotOpenErr == Err("NotSqlx", "-", <<"connection is not open">>, FALSE, 0)

\* str::contains on the TLS error text
contains_StartsWith(msg, phrase) == msg # <<>> /\ msg[1] = phrase

contains(msg, phrase) == \E i \in 1..Len(msg) : msg[i] = phrase

should_reconnect_Always(e) == e.variant # "NotSqlx"
should_reconnect(e) ==
    IF e.variant = "NotSqlx" THEN FALSE
    ELSE CASE e.variant = "Io" ->
                  e.kind \in {"ConnectionRefused", "ConnectionReset",
                              "ConnectionAborted", "NotConnected", "TimedOut",
                              "BrokenPipe", "UnexpectedEof"}
           [] e.variant = "Tls" ->
                  \/ contains(e.msg, "handshake failed")
                  \/ contains(e.msg, "connection closed")
                  \/ contains(e.msg, "unexpected EOF")
           [] e.variant = "Database" ->
                  IF e.mysql THEN e.code \in {2002, 2003, 2006, 2013, 2055}
                  ELSE FALSE
           [] OTHER -> FALSE

Ok == [ok |-> TRUE, err |-> NotOpenErr]
Failed(e) == [ok |-> FALSE, err |-> e]

\* Outcomes the server and the network can give a query.
QueryOutcomes ==
    {Ok, Failed(IoErr("ConnectionReset")), Failed(DbErr(2006)), Failed(DbErr(1064))}

\* Longest TLS error text, in phrases.
MaxPhrases == 2

\* io::ErrorKind values an Io error can carry.
IoKinds ==
    {"ConnectionRefused", "ConnectionReset", "ConnectionAborted",
     "NotConnected", "TimedOut", "BrokenPipe", "UnexpectedEof",
     "Interrupted", "PermissionDenied", "WouldBlock", "InvalidData", "Other"}

\* Phrases the text of a TLS error is made of.
TlsPhrases ==
    {"handshake failed", "connection closed", "unexpected EOF",
     "Unexpected eof", "certificate expired"}

\* TLS error texts of up to MaxPhrases phrases.
TlsTexts ==
    UNION {[1..n -> TlsPhrases] : n \in 0..MaxPhrases}

\* Numbers of MySqlDatabaseError: the connection errors of the client
\* library and their neighbours, and errors of the server.
MySqlCodes ==
    {2001, 2002, 2003, 2004, 2005, 2006, 2007, 2012, 2013, 2014, 2054, 2055,
     2056, 1040, 1045, 1064, 1205, 1213}

\* sqlx::Error variants other than Io, Tls and Database.
OtherSqlxVariants ==
    {"Configuration", "Protocol", "RowNotFound", "ColumnDecode", "Decode",
     "PoolTimedOut", "PoolClosed", "WorkerCrashed"}

\* Errors query.start can return: every sqlx::Error above, a database error
\* that is not a MySqlDatabaseError, and anyhow errors that are no
\* sqlx::Error.
ErrorInputs ==
    {IoErr(k) : k \in IoKinds}
    \cup {TlsErr(m) : m \in TlsTexts}
    \cup {DbErr(c) : c \in MySqlCodes}
    \cup {Err("Database", "-", <<>>, FALSE, 0)}
    \cup {Err(v, "-", <<>>, FALSE, 0) : v \in OtherSqlxVariants}
    \cup {NotOpenErr, Err("NotSqlx", "-", <<"invalid parameter">>, FALSE, 0)}

\* Every outcome of query.start over ErrorInputs.
AllOutcomes == {Ok} \cup {Failed(e) : e \in ErrorInputs}

\* ------------------------------------------------------------------------
\* State
\* ------------------------------------------------------------------------

VARIABLES
    chan,        \* the command channel of the connection, FIFO
    sent,        \* commands submitted so far; the serial of the last one
    closing,     \* the host has sent Close
    conn,        \* Option<MySqlConnection>: None, or the connection object
    nobj,        \* connection objects created so far
    meta,        \* ConnMeta: state, id
    task_queue,  \* ConnMeta.task_queue: callbacks waiting for the host tick
    pc,          \* where the worker is inside the handler of the command
    cur,         \* the command being handled: its serial and its callback
    result,      \* Query.result of the query being handled
    delay,       \* query(): `delay`, seconds
    attempt,     \* query(): iterations of `for _ in 0..7` done
    execs,       \* per query: times query.start ran it
    delivered,   \* per command: outcomes the host tick gave its continuation
    hist,        \* observations on the query being handled or last handled
    \* conn/mod.rs, conn/transaction.rs
    worker_threads,  \* worker threads of the runtime
    runq,        \* spawned tasks no worker has polled yet, oldest first
    tasks,       \* the tasks that are not done, by the serial of their spawn
    spawned,     \* tasks spawned so far
    mutex,       \* Conn.inner: the Mutex
    inner,       \* Conn.inner: the Option<MySqlConnection> in the Mutex
    state,       \* Conn.state
    transaction_coroutine_ref,  \* Conn.transaction_coroutine_ref
    txns,        \* the Transactions, each behind its own Mutex
    co,          \* the coroutines made by Begin: new, running, yield, dead
    running,     \* the Lua thread the host is running
    waiting_on,  \* the task the host thread waits for in wait_async, or 0
    waiter,      \* the Lua thread whose call is inside wait_async
    lua_queue,   \* closures given to wait_lua_tick, oldest first
    calls,       \* calls the host script has made
    raised,      \* the error the call just made raised to the script, if any
    returned,    \* what the synchronous call that just ended returned, if any
    conn_userdata  \* the userdata of the connection: live, or collected

avars == <<chan, sent, closing, conn, nobj, meta, task_queue, pc, cur, result,
           delay, attempt, execs, delivered, hist>>

lvars == <<worker_threads, runq, tasks, spawned, mutex, inner, state,
           transaction_coroutine_ref, txns, co, running, waiting_on, waiter,
           lua_queue, calls, raised, returned, conn_userdata>>

vars == <<avars, lvars>>

Serials == 1..(MaxCmds + 1)

NoHist ==
    [q |-> 0, state0 |-> "NotConnected", id0 |-> 0, conn0 |-> None,
     transient |-> FALSE, pings |-> 0, pingok |-> FALSE, attempts |-> 0,
     succ |-> 0, slept |-> <<>>, done |-> TRUE, gaveup |-> FALSE]

\* The record of a command other than Connect: it keeps what is known of a
\* reconnection that gave up.
Kept == [NoHist EXCEPT !.gaveup = hist.gaveup]

ActorInit ==
    /\ chan = <<>>
    /\ sent = 0
    /\ closing = FALSE
    /\ conn = None
    /\ nobj = 0
    /\ meta = [state |-> "NotConnected", id |-> 0]
    /\ task_queue = <<>>
    /\ pc = "idle"
    /\ cur = [serial |-> 0, callback |-> LUA_NOREF]
    /\ result = Ok
    /\ delay = 0
    /\ attempt = 0
    /\ execs = [s \in Serials |-> 0]
    /\ delivered = [s \in Serials |-> <<>>]
    /\ hist = NoHist

set_state(s) == [meta EXCEPT !.state = s]

\* task_queue.add
add_Front(kind, serial, res) ==
    <<[kind |-> kind, serial |-> serial, res |-> res]>> \o task_queue

add(kind, serial, res) ==
    Append(task_queue, [kind |-> kind, serial |-> serial, res |-> res])

\* ------------------------------------------------------------------------
\* The host: submitting commands, and the tick that runs the callbacks
\* ------------------------------------------------------------------------

CmdTypes == {"Connect", "Disconnect", "Query", "Ping", "Close"}

\* The host puts a command on the channel.  Close is the last one.
Send ==
    /\ sent < MaxCmds
    /\ ~closing
    /\ \E type \in CmdTypes :
          /\ chan' = Append(chan, [type |-> type, serial |-> sent + 1])
          /\ closing' = (type = "Close")
    /\ sent' = sent + 1
    /\ UNCHANGED <<conn, nobj, meta, task_queue, pc, cur, result, delay,
                   attempt, execs, delivered, hist>>
    /\ UNCHANGED lvars

\* The host thread polls the task queue and runs its oldest callback.
Tick ==
    /\ task_queue # <<>>
    /\ delivered' = [delivered EXCEPT ![Head(task_queue).serial] =
                        Append(@, Head(task_queue).res)]
    /\ task_queue' = Tail(task_queue)
    /\ UNCHANGED <<chan, sent, closing, conn, nobj, meta, pc, cur, result,
                   delay, attempt, execs, hist>>
    /\ UNCHANGED lvars

\* ------------------------------------------------------------------------
\* The worker: one command at a time, each handler run to its end
\* ------------------------------------------------------------------------

\* The worker takes the next command when the handler before it returned.
Receives(type) ==
    /\ pc = "idle"
    /\ chan # <<>>
    /\ Head(chan).type = type
    /\ chan' = Tail(chan)

\* connect(): from its entry to its first await.  An old connection is
\* taken out and closed first; otherwise the state is set and
\* connect_with starts.
connect_enter_Skips ==
    IF conn # None
    THEN /\ conn' = None
         /\ meta' = meta
         /\ pc' = "connect_close"
    ELSE /\ conn' = conn
         /\ meta' = meta
         /\ pc' = "connect_with"

connect_enter ==
    IF conn # None
    THEN /\ conn' = None
         /\ meta' = meta
         /\ pc' = "connect_close"
    ELSE /\ conn' = conn
         /\ meta' = set_state("Connecting")
         /\ pc' = "connect_with"

\* Command Connect(callback): connect(conn, meta, callback) is entered.
connect ==
    /\ Receives("Connect")
    /\ cur' = [serial |-> Head(chan).serial, callback |-> Head(chan).serial]
    /\ connect_enter
    /\ hist' = NoHist
    /\ UNCHANGED <<sent, closing, nobj, task_queue, result, delay, attempt,
                   execs, delivered>>
    /\ UNCHANGED lvars

\* connect(): old_conn.close() returned; its result is dropped.
connect_close ==
    /\ pc = "connect_close"
    /\ meta' = set_state("Connecting")
    /\ pc' = "connect_with"
    /\ UNCHANGED <<chan, sent, closing, conn, nobj, task_queue, cur, result,
                   delay, attempt, execs, delivered, hist>>
    /\ UNCHANGED lvars

\* query(): every path out of the function is a plain return to the command
\* loop, which goes on to the next command.
query_returns_Ends == "closed"

query_returns == "idle"

\* connect(): what a successful connect_with stores.
connected_id_Same(id) == id
connected_id(id) == id + 1

\* query(): the loop `for _ in 0..7` goes on after a failed attempt.
retries_left_Off(n) == n < ReconnectAttempts + 1
retries_left(n) == n < ReconnectAttempts

\* connect(): what a failed connect_with stores.
connect_failed_Stuck(m) == m
connect_failed(m) == [m EXCEPT !.state = "NotConnected"]

\* connect(): connect_with returned.  With callback LUA_NOREF the caller is
\* the reconnect loop of query(), which goes on with the returned bool.
connect_with ==
    /\ pc = "connect_with"
    /\ \E ok \in BOOLEAN :
          /\ IF ok
             THEN /\ conn' = Some(nobj + 1)
                  /\ nobj' = nobj + 1
                  /\ meta' = [state |-> "Connected", id |-> connected_id(meta.id)]
             ELSE /\ meta' = connect_failed(meta)
                  /\ UNCHANGED <<conn, nobj>>
          /\ IF cur.callback = LUA_NOREF
             THEN /\ task_queue' = task_queue
                  /\ IF ok
                     THEN /\ pc' = query_returns
                          /\ attempt' = attempt
                          /\ hist' = [hist EXCEPT !.succ = @ + 1, !.done = TRUE]
                     ELSE /\ attempt' = attempt + 1
                          /\ pc' = IF retries_left(attempt + 1)
                                   THEN "query_sleep" ELSE query_returns
                          /\ hist' = [hist EXCEPT
                                        !.done = ~retries_left(attempt + 1),
                                        !.gaveup = ~retries_left(attempt + 1)]
             ELSE /\ task_queue' =
                        add("connect", cur.serial,
                            IF ok THEN Ok ELSE Failed(IoErr("ConnectionRefused")))
                  /\ pc' = "idle"
                  /\ UNCHANGED <<attempt, hist>>
    /\ UNCHANGED <<chan, sent, closing, cur, result, delay, execs, delivered>>
    /\ UNCHANGED lvars

\* disconnect(): what the closure on the task queue gives the callback, the
\* result of the close.
close_report_Swallowed(res) == Ok

close_report(res) == res

\* Command Disconnect(callback): the state is set, the connection taken.
disconnect ==
    /\ Receives("Disconnect")
    /\ cur' = [serial |-> Head(chan).serial, callback |-> Head(chan).serial]
    /\ meta' = set_state("Disconnected")
    /\ conn' = None
    /\ IF conn # None
       THEN /\ pc' = "disconnect_close"
            /\ task_queue' = task_queue
            /\ result' = result
       ELSE /\ pc' = "idle"
            /\ result' = Ok
            /\ task_queue' = add("disconnect", Head(chan).serial,
                                 close_report(result'))
    /\ hist' = Kept
    /\ UNCHANGED <<sent, closing, nobj, delay, attempt, execs, delivered>>
    /\ UNCHANGED lvars

\* disconnect(): old_conn.close() returned; its result goes to the callback.
disconnect_close ==
    /\ pc = "disconnect_close"
    /\ result' \in {Ok, Failed(IoErr("BrokenPipe"))}
    /\ task_queue' = add("disconnect", cur.serial, close_report(result'))
    /\ pc' = "idle"
    /\ UNCHANGED <<chan, sent, closing, conn, nobj, meta, cur, delay,
                   attempt, execs, delivered, hist>>
    /\ UNCHANGED lvars

\* Command Ping(callback).
ping ==
    /\ Receives("Ping")
    /\ cur' = [serial |-> Head(chan).serial, callback |-> Head(chan).serial]
    /\ IF conn = None
       THEN /\ task_queue' = add("ping", Head(chan).serial, Failed(NotOpenErr))
            /\ pc' = "idle"
       ELSE /\ task_queue' = task_queue
            /\ pc' = "ping"
    /\ hist' = Kept
    /\ UNCHANGED <<sent, closing, conn, nobj, meta, result, delay, attempt,
                   execs, delivered>>
    /\ UNCHANGED lvars

\* ping(): what the closure on the task queue pushes for the callback, nil
\* and the latency, or the error alone.
ping_callback_Both(res) ==
    [err |-> IF res.ok THEN None ELSE Some(res.err), latency |-> Some("micros")]

ping_callback(res) ==
    [err |-> IF res.ok THEN None ELSE Some(res.err),
     latency |-> IF res.ok THEN Some("micros") ELSE None]

\* ping(): conn.ping() returned.
ping_done ==
    /\ pc = "ping"
    /\ \E ok \in BOOLEAN :
          task_queue' = add("ping", cur.serial,
                            IF ok THEN Ok ELSE Failed(IoErr("BrokenPipe")))
    /\ pc' = "idle"
    /\ UNCHANGED <<chan, sent, closing, conn, nobj, meta, cur, result, delay,
                   attempt, execs, delivered, hist>>
    /\ UNCHANGED lvars

\* Command Close: the command loop ends.
close ==
    /\ Receives("Close")
    /\ pc' = "closed"
    /\ hist' = Kept
    /\ UNCHANGED <<sent, closing, conn, nobj, meta, task_queue, cur, result,
                   delay, attempt, execs, delivered>>
    /\ UNCHANGED lvars

\* query(): `meta.task_queue.add(move |l| query.process_result(l))`
process_result_Dropped(serial, r) == task_queue
process_result(serial, r) == add("query", serial, r)

\* query(): the value of the block that binds `should_reconnect`, for an
\* error classified `should` whose confirming ping gave `ping_failed`.  The
\* block ends in `should`: the ping decides only the store of NotConnected.
reconnects(should, ping_failed) == should

\* Command Query(query): without a connection the error goes to the
\* callback at once; otherwise query.start runs on the connection.
query ==
    /\ Receives("Query")
    /\ cur' = [serial |-> Head(chan).serial, callback |-> LUA_NOREF]
    /\ IF conn = None
       THEN /\ task_queue' = add("query", Head(chan).serial, Failed(NotOpenErr))
            /\ pc' = query_returns
            /\ hist' = [Kept EXCEPT !.q = Head(chan).serial,
                            !.state0 = meta.state, !.id0 = meta.id,
                            !.conn0 = conn]
       ELSE /\ task_queue' = task_queue
            /\ pc' = "query_start"
            /\ hist' = [Kept EXCEPT !.q = Head(chan).serial,
                            !.state0 = meta.state, !.id0 = meta.id,
                            !.conn0 = conn, !.done = FALSE]
    /\ UNCHANGED <<sent, closing, conn, nobj, meta, result, delay, attempt,
                   execs, delivered>>
    /\ UNCHANGED lvars

\* query(): query.start returned.  An error is classified; one that is not
\* transient, or no error, puts the result on the task queue and returns.
query_start_from(outcomes_of_start) ==
    /\ pc = "query_start"
    /\ \E r \in outcomes_of_start :
          /\ result' = r
          /\ IF ~r.ok /\ should_reconnect(r.err)
             THEN /\ pc' = "query_ping"
                  /\ task_queue' = task_queue
                  /\ hist' = [hist EXCEPT !.transient = TRUE]
             ELSE /\ pc' = query_returns
                  /\ task_queue' = process_result(cur.serial, r)
                  /\ hist' = [hist EXCEPT !.done = TRUE]
    /\ execs' = [execs EXCEPT ![cur.serial] = @ + 1]
    /\ UNCHANGED <<chan, sent, closing, conn, nobj, meta, cur, delay, attempt,
                   delivered>>
    /\ UNCHANGED lvars

query_start == query_start_from(QueryOutcomes)

\* query(): what `meta.state.store(State::NotConnected, Release)` leaves in
\* ConnMeta after a confirming ping that gave `ok`.
lost_state_Kept(ok) == meta

lost_state(ok) == IF ~ok THEN set_state("NotConnected") ELSE meta

\* query(): the confirming ping returned.  A failed ping stores
\* NotConnected; the block that binds `should_reconnect` ends.
query_ping ==
    /\ pc = "query_ping"
    /\ \E ok \in BOOLEAN :
          /\ meta' = lost_state(ok)
          /\ hist' = [hist EXCEPT !.pings = @ + 1, !.pingok = ok]
    /\ pc' = "query_add"
    /\ UNCHANGED <<chan, sent, closing, conn, nobj, task_queue, cur, result,
                   delay, attempt, execs, delivered>>
    /\ UNCHANGED lvars

\* query(): after the block, the result goes on the task queue; then the
\* reconnect loop starts with its first sleep.
query_add ==
    /\ pc = "query_add"
    /\ task_queue' = process_result(cur.serial, result)
    /\ IF reconnects(TRUE, ~hist.pingok)
       THEN /\ pc' = "query_sleep"
            /\ delay' = FirstDelay
            /\ attempt' = 0
            /\ hist' = hist
       ELSE /\ pc' = query_returns
            /\ UNCHANGED <<delay, attempt>>
            /\ hist' = [hist EXCEPT !.done = TRUE]
    /\ UNCHANGED <<chan, sent, closing, conn, nobj, meta, cur, result, execs,
                   delivered>>
    /\ UNCHANGED lvars

\* query(): `delay += 1s`
next_delay_Double(d) == d + d
next_delay(d) == d + DelayStep

\* query(): sleep(delay) is over; the delay grows and connect(conn, meta,
\* LUA_NOREF) is entered.
query_sleep ==
    /\ pc = "query_sleep"
    /\ delay' = next_delay(delay)
    /\ hist' = [hist EXCEPT !.slept = Append(@, delay), !.attempts = @ + 1]
    /\ connect_enter
    /\ UNCHANGED <<chan, sent, closing, nobj, task_queue, cur, result, attempt,
                   execs, delivered>>
    /\ UNCHANGED lvars


\* ========================================================================
\* conn/mod.rs and conn/transaction.rs: one worker task per host call, the
\* connection behind a tokio Mutex
\* ========================================================================

\* The host thread that makes a call: the main thread, or a coroutine named
\* by its registry reference.
MainThread == 0

\* tokio::sync::Mutex: fair, the waiters are served first come first served.
Unlocked == [owner |-> 0, waiters |-> <<>>]
lock(m, i) ==
    IF m.owner = 0 THEN [m EXCEPT !.owner = i]
    ELSE [m EXCEPT !.waiters = Append(@, i)]
unlock(m) ==
    IF m.waiters = <<>> THEN Unlocked
    ELSE [owner |-> Head(m.waiters), waiters |-> Tail(m.waiters)]

\* The position task `i` is left at by a lock() it made on `m`.
after_lock_NoWait(m, i) == "locked"
after_lock(m, i) == IF m.owner = 0 THEN "locked" ELSE "waiting"

\* The task an unlock of `m` hands the mutex to, with its new position.
woken_Nobody(m) == [t \in {} |-> "locked"]

woken(m) ==
    IF m.waiters = <<>> THEN [t \in {} |-> "locked"]
    ELSE Head(m.waiters) :> "locked"

\* `tasks` with the positions `f` gives; a task that is done is dropped.
moved(f) ==
    LET live == {t \in DOMAIN tasks : ~(t \in DOMAIN f /\ f[t] = "done")} IN
    [t \in live |->
        IF t \in DOMAIN f THEN [tasks[t] EXCEPT !.pc = f[t]] ELSE tasks[t]]

\* run_async: the future is spawned on the runtime; its task waits in the
\* run queue for a worker.
run_async(kind, txn, origin) ==
    /\ tasks' = (spawned + 1 :> [kind |-> kind, pc |-> "spawned", txn |-> txn,
                                 origin |-> origin]) @@ tasks
    /\ runq' = Append(runq, spawned + 1)
    /\ spawned' = spawned + 1

\* wait_lua_tick: the closure runs on the host thread at a later tick.
wait_lua_tick(kind, task, ok) ==
    Append(lua_queue, [kind |-> kind, txn |-> tasks[task].txn, ok |-> ok])

\* What the last host call raised to the script: the message, and the
\* transaction and the method of the call.  NoError: it raised nothing.
Raised(error, txn, call) == [error |-> error, txn |-> txn, call |-> call]

NoError == Raised("none", 0, "none")

\* Conn::extract_userdata: a call on the connection made by the coroutine of
\* the transaction that is running is refused.
deadlock_detected(l) ==
    /\ transaction_coroutine_ref # LUA_NOREF
    /\ l = transaction_coroutine_ref

\* Transaction::is_open
is_open_IgnoresFinalizing(t) == txns[t].open

is_open(t) == txns[t].open /\ ~txns[t].finalizing

\* Transaction::extract_userdata, for a call made by thread `l` with the
\* userdata of transaction `t`.
txn_accessible_AnyThread(l, t) ==
    /\ t \in DOMAIN txns
    /\ txns[t].userdata = "live"
    /\ is_open(t)

txn_accessible(l, t) ==
    /\ t \in DOMAIN txns
    /\ txns[t].userdata = "live"
    /\ is_open(t)
    /\ l # MainThread
    /\ l = txns[t].coroutine_ref

\* The Lua thread that is running is inside wait_async: it runs no script
\* code until the task it waits for is over.
Blocked == waiting_on # 0 /\ running = waiter

\* The thread that is running is free to run script code that calls into the
\* module.
CanCall ==
    /\ ~Blocked
    /\ calls < MaxCalls

\* wait_async is entered by one thread at a time.
CanWait ==
    /\ waiting_on = 0
    /\ waiter = MainThread

\* Where control goes when the coroutine that is running yields or ends: to
\* the thread that resumed it, which is the one draining in wait_async if
\* there is one, and that thread's wait is over if its task is.
resumer_after == IF waiting_on = 0 THEN MainThread ELSE waiter

\* The thread in wait_async after the task it waits for ended: if it is the
\* one running its wait returns.
waiter_after == IF running = waiter THEN MainThread ELSE waiter

\* Who runs the closures of the task queue: the per-tick poll on the main
\* thread, and the thread inside wait_async between two checks of its
\* rendezvous channel.
drains_OnlyPoll == running = MainThread /\ waiting_on = 0

drains == running = waiter

\* --- host calls on the connection --------------------------------------

\* conn:Start
start_connect ==
    /\ CanCall
    /\ conn_userdata = "live"
    /\ ~deadlock_detected(running)
    /\ run_async("start", 0, "call")
    /\ calls' = calls + 1
    /\ UNCHANGED <<worker_threads, mutex, inner, state,
                   transaction_coroutine_ref, txns, co, running, waiting_on,
                   lua_queue>>
    /\ raised' = NoError
    /\ returned' = None
    /\ UNCHANGED conn_userdata
    /\ UNCHANGED waiter
    /\ UNCHANGED avars

\* conn:Disconnect
start_disconnect ==
    /\ CanCall
    /\ conn_userdata = "live"
    /\ ~deadlock_detected(running)
    /\ run_async("disconnect", 0, "call")
    /\ calls' = calls + 1
    /\ UNCHANGED <<worker_threads, mutex, inner, state,
                   transaction_coroutine_ref, txns, co, running, waiting_on,
                   lua_queue>>
    /\ raised' = NoError
    /\ returned' = None
    /\ UNCHANGED conn_userdata
    /\ UNCHANGED waiter
    /\ UNCHANGED avars

\* conn:Execute, conn:FetchOne, conn:Fetch with callbacks
start_query ==
    /\ CanCall
    /\ conn_userdata = "live"
    /\ ~deadlock_detected(running)
    /\ run_async("query", 0, "call")
    /\ calls' = calls + 1
    /\ UNCHANGED <<worker_threads, mutex, inner, state,
                   transaction_coroutine_ref, txns, co, running, waiting_on,
                   lua_queue>>
    /\ raised' = NoError
    /\ returned' = None
    /\ UNCHANGED conn_userdata
    /\ UNCHANGED waiter
    /\ UNCHANGED avars

\* conn:Ping: the host thread waits in wait_async for the task.
lua_ping ==
    /\ CanCall
    /\ CanWait
    /\ conn_userdata = "live"
    /\ ~deadlock_detected(running)
    /\ run_async("ping", 0, "call")
    /\ waiting_on' = spawned + 1
    /\ calls' = calls + 1
    /\ UNCHANGED <<worker_threads, mutex, inner, state,
                   transaction_coroutine_ref, txns, co, running, lua_queue>>
    /\ raised' = NoError
    /\ returned' = None
    /\ UNCHANGED conn_userdata
    /\ waiter' = running
    /\ UNCHANGED avars

\* conn:Begin: a coroutine is made for the function, its reference is
\* stored in the connection, and Transaction::new is spawned.
internal_new ==
    /\ CanCall
    /\ conn_userdata = "live"
    /\ ~deadlock_detected(running)
    /\ co' = (spawned + 1 :> "new") @@ co
    /\ transaction_coroutine_ref' = spawned + 1
    /\ run_async("begin", spawned + 1, "call")
    /\ calls' = calls + 1
    /\ UNCHANGED <<worker_threads, mutex, inner, state, txns, running,
                   waiting_on, lua_queue>>
    /\ raised' = NoError
    /\ returned' = None
    /\ UNCHANGED conn_userdata
    /\ UNCHANGED waiter
    /\ UNCHANGED avars

\* --- calls made by the coroutine of a transaction ------------------------

\* What Transaction::extract_userdata bails with.
extract_error(l, t) ==
    IF ~is_open(t) THEN "transaction is closed"
    ELSE "transaction can only be accessed from the coroutine it was created in"

\* The handles the script can pass to a call: the userdata of transaction
\* `t` exists, and blocking_lock has the Transaction.
Handles == {t \in DOMAIN txns : txns[t].userdata = "live" /\ txns[t].mu.owner = 0}

\* txn:Execute, txn:FetchOne, txn:Fetch: the query is spawned and the
\* coroutine yields.
txn_internal_query ==
    /\ CanCall
    /\ \E t \in Handles :
          /\ txn_accessible(running, t)
          /\ run_async("txn_query", t, "call")
    /\ co' = [co EXCEPT ![running] = "yield"]
    /\ running' = waiter
    /\ waiter' = resumer_after
    /\ calls' = calls + 1
    /\ UNCHANGED <<worker_threads, mutex, inner, state,
                   transaction_coroutine_ref, txns, waiting_on, lua_queue>>
    /\ raised' = NoError
    /\ returned' = None
    /\ UNCHANGED conn_userdata
    /\ UNCHANGED avars

\* txn:Ping: the host thread waits in wait_async for the task.
txn_ping ==
    /\ CanCall
    /\ CanWait
    /\ \E t \in Handles :
          /\ txn_accessible(running, t)
          /\ run_async("txn_ping", t, "call")
    /\ waiting_on' = spawned + 1
    /\ calls' = calls + 1
    /\ UNCHANGED <<worker_threads, mutex, inner, state,
                   transaction_coroutine_ref, txns, co, running, lua_queue>>
    /\ raised' = NoError
    /\ returned' = None
    /\ UNCHANGED conn_userdata
    /\ waiter' = running
    /\ UNCHANGED avars

\* txn:Commit, txn:Rollback: finalizing is set, the finalize is spawned and
\* the coroutine yields.
txn_finalize ==
    /\ CanCall
    /\ \E t \in Handles :
          /\ txn_accessible(running, t)
          /\ txns' = [txns EXCEPT ![t].finalizing = TRUE]
          /\ run_async("finalize", t, "call")
    /\ co' = [co EXCEPT ![running] = "yield"]
    /\ running' = waiter
    /\ waiter' = resumer_after
    /\ calls' = calls + 1
    /\ UNCHANGED <<worker_threads, mutex, inner, state,
                   transaction_coroutine_ref, waiting_on, lua_queue>>
    /\ raised' = NoError
    /\ returned' = None
    /\ UNCHANGED conn_userdata
    /\ UNCHANGED avars

\* The methods of a transaction userdata that begin with
\* Transaction::extract_userdata: the queries, Ping, Commit and Rollback.
TxnCalls == {"query", "ping", "finalize"}

\* A call on a transaction that Transaction::extract_userdata refuses: the
\* error is raised to the script and nothing else happens.
txn_call_refused ==
    /\ ~Blocked
    /\ \E t \in Handles :
          /\ ~txn_accessible(running, t)
          /\ \E call \in TxnCalls :
                raised' = Raised(extract_error(running, t), t, call)
    /\ returned' = None
    /\ UNCHANGED <<worker_threads, runq, tasks, spawned, mutex, inner, state,
                   transaction_coroutine_ref, txns, co, running, waiting_on,
                   lua_queue, calls>>
    /\ UNCHANGED conn_userdata
    /\ UNCHANGED waiter
    /\ UNCHANGED avars

\* A call on the connection that Conn::extract_userdata refuses.
conn_call_refused ==
    /\ ~Blocked
    /\ conn_userdata = "live"
    /\ deadlock_detected(running)
    /\ raised' = Raised("DEADLOCK DETECTED", 0, "conn")
    /\ returned' = None
    /\ UNCHANGED <<worker_threads, runq, tasks, spawned, mutex, inner, state,
                   transaction_coroutine_ref, txns, co, running, waiting_on,
                   lua_queue, calls>>
    /\ UNCHANGED conn_userdata
    /\ UNCHANGED waiter
    /\ UNCHANGED avars

\* The function of the coroutine returns: coroutine_resume_ignore gives
\* Ok(LUA_OK) and Transaction::resume spawns a rollback.  (A function that
\* raises gets the same rollback, without the diagnostic.)  A coroutine
\* resumed with the error of a failed Begin gets none.
coroutine_ends ==
    /\ ~Blocked
    /\ running # MainThread
    /\ co' = [co EXCEPT ![running] = "dead"]
    /\ running' = waiter
    /\ waiter' = resumer_after
    /\ IF running \in DOMAIN txns
       THEN run_async("finalize", running, "resume")
       ELSE UNCHANGED <<tasks, runq, spawned>>
    /\ UNCHANGED <<worker_threads, mutex, inner, state,
                   transaction_coroutine_ref, txns, waiting_on, lua_queue,
                   calls>>
    /\ raised' = NoError
    /\ returned' = None
    /\ UNCHANGED conn_userdata
    /\ UNCHANGED avars

\* __gc of a transaction userdata: the function of the coroutine holds it
\* as its argument, so it is collected after the coroutine is dead.  A
\* rollback is spawned.  The collector calls into the module as the script
\* does, and its calls are counted with the script's.
txn_gc(t) ==
    /\ calls < MaxCalls
    /\ txns[t].userdata = "live"
    /\ co[t] = "dead"
    /\ txns' = [txns EXCEPT ![t].userdata = "collected"]
    /\ run_async("finalize", t, "gc")
    /\ calls' = calls + 1
    /\ UNCHANGED <<worker_threads, mutex, inner, state,
                   transaction_coroutine_ref, co, running, waiting_on,
                   lua_queue>>
    /\ raised' = NoError
    /\ returned' = None
    /\ UNCHANGED conn_userdata
    /\ UNCHANGED waiter
    /\ UNCHANGED avars

\* __gc of the connection userdata: it is collected when the script holds it
\* no more and no Start or Disconnect, which keep a reference to it for
\* their callback, is under way.  A task is spawned that waits for the mutex
\* and disconnects.
conn_gc ==
    /\ calls < MaxCalls
    /\ waiting_on = 0
    /\ conn_userdata = "live"
    /\ \A i \in DOMAIN tasks : tasks[i].kind \notin {"start", "disconnect"}
    /\ \A k \in 1..Len(lua_queue) :
          lua_queue[k].kind \notin {"start", "disconnect"}
    /\ conn_userdata' = "collected"
    /\ UNCHANGED waiter
    /\ run_async("gc", 0, "gc")
    /\ calls' = calls + 1
    /\ UNCHANGED <<worker_threads, mutex, inner, state,
                   transaction_coroutine_ref, txns, co, running, waiting_on,
                   lua_queue>>
    /\ raised' = NoError
    /\ returned' = None
    /\ UNCHANGED avars

\* --- the host tick -------------------------------------------------------

\* The host thread runs the oldest closure given to wait_lua_tick.  The
\* closure of a Begin, of a transaction query or of a Commit/Rollback resumes
\* the coroutine of the transaction.
on_tick ==
    /\ drains
    /\ lua_queue # <<>>
    /\ lua_queue' = Tail(lua_queue)
    /\ LET cb == Head(lua_queue) IN
       IF cb.kind \in {"begin", "txn_query", "finalize"}
       THEN /\ co' = [co EXCEPT ![cb.txn] = "running"]
            /\ running' = cb.txn
            /\ txns' = IF cb.kind = "begin" /\ cb.ok
                       THEN [txns EXCEPT ![cb.txn].userdata = "live"]
                       ELSE txns
       ELSE UNCHANGED <<co, running, txns>>
    /\ UNCHANGED <<spawned, worker_threads, runq, tasks, mutex, inner, state,
                   transaction_coroutine_ref, waiting_on, calls>>
    /\ raised' = NoError
    /\ returned' = None
    /\ UNCHANGED conn_userdata
    /\ UNCHANGED waiter
    /\ UNCHANGED avars

\* --- worker tasks ----------------------------------------------------------

\* A worker takes a task from the run queue, oldest first, and polls it;
\* with several workers the tasks they hold race.
polled(i) ==
    /\ tasks[i].pc = "spawned"
    /\ \E k \in 1..Len(runq) : k <= worker_threads /\ runq[k] = i
    /\ runq' = SelectSeq(runq, LAMBDA j : j # i)

\* Conn::start, Conn::disconnect, Conn::ping, internal_query and
\* Transaction::new begin with a lock of the connection; Conn::start
\* returns Ok before it when the state reads Connecting.
conn_lock(i) ==
    /\ polled(i)
    /\ tasks[i].kind \in {"start", "disconnect", "query", "ping", "begin", "gc"}
    /\ IF tasks[i].kind = "start" /\ state = "Connecting"
       THEN /\ tasks' = moved(i :> "done")
            /\ lua_queue' = wait_lua_tick("start", i, TRUE)
            /\ mutex' = mutex
       ELSE /\ tasks' = moved(i :> after_lock(mutex, i))
            /\ mutex' = lock(mutex, i)
            /\ lua_queue' = lua_queue
    /\ UNCHANGED <<spawned, worker_threads, inner, state,
                   transaction_coroutine_ref, txns, co, running, waiting_on,
                   calls>>
    /\ raised' = NoError
    /\ returned' = None
    /\ UNCHANGED conn_userdata
    /\ UNCHANGED waiter
    /\ UNCHANGED avars

\* Conn::start with the lock: the old connection is taken out and closed.
start_locked(i) ==
    /\ tasks[i].kind = "start"
    /\ tasks[i].pc = "locked"
    /\ inner' = None
    /\ IF inner # None
       THEN /\ tasks' = moved(i :> "closing")
            /\ state' = state
       ELSE /\ tasks' = moved(i :> "connecting")
            /\ state' = "Connecting"
    /\ UNCHANGED <<spawned, worker_threads, runq, mutex, transaction_coroutine_ref, txns, co, running, waiting_on,
                   lua_queue, calls>>
    /\ raised' = NoError
    /\ returned' = None
    /\ UNCHANGED conn_userdata
    /\ UNCHANGED waiter
    /\ UNCHANGED avars

\* Conn::start: conn.close() returned.
start_closed(i) ==
    /\ tasks[i].kind = "start"
    /\ tasks[i].pc = "closing"
    /\ state' = "Connecting"
    /\ tasks' = moved(i :> "connecting")
    /\ UNCHANGED <<spawned, worker_threads, runq, mutex, inner, transaction_coroutine_ref, txns, co, running, waiting_on,
                   lua_queue, calls>>
    /\ raised' = NoError
    /\ returned' = None
    /\ UNCHANGED conn_userdata
    /\ UNCHANGED waiter
    /\ UNCHANGED avars

\* Conn::start: connect_with returned; the guard is dropped on return.
start_connected(i) ==
    /\ tasks[i].kind = "start"
    /\ tasks[i].pc = "connecting"
    /\ \E ok \in BOOLEAN :
          /\ IF ok
             THEN /\ inner' = Some("MySqlConnection")
                  /\ state' = "Connected"
             ELSE /\ state' = "Error"
                  /\ inner' = inner
          /\ lua_queue' = wait_lua_tick("start", i, ok)
    /\ mutex' = unlock(mutex)
    /\ tasks' = moved((i :> "done") @@ woken(mutex))
    /\ UNCHANGED <<spawned, worker_threads, runq, transaction_coroutine_ref, txns, co,
                   running, waiting_on, calls>>
    /\ raised' = NoError
    /\ returned' = None
    /\ UNCHANGED conn_userdata
    /\ UNCHANGED waiter
    /\ UNCHANGED avars

\* Conn::disconnect: it goes on only for a connection that is Connected.
disconnect_applies_Always(s) == TRUE

disconnect_applies(s) == s = "Connected"

\* What a Conn::disconnect that ended with `ok` queues for the host thread:
\* the callback of conn:Disconnect, or for __gc the report of an error.
disconnect_reports(i, ok) ==
    IF tasks[i].origin = "call" THEN wait_lua_tick("disconnect", i, ok)
    ELSE IF ok THEN lua_queue
    ELSE wait_lua_tick("error_no_halt", i, FALSE)

\* Conn::disconnect with the lock.
disconnect_locked(i) ==
    /\ tasks[i].kind = "disconnect"
    /\ tasks[i].pc = "locked"
    /\ IF ~disconnect_applies(state)
       THEN /\ mutex' = unlock(mutex)
            /\ tasks' = moved((i :> "done") @@ woken(mutex))
            /\ lua_queue' = disconnect_reports(i, TRUE)
            /\ UNCHANGED <<state, inner>>
       ELSE /\ state' = "Disconnected"
            /\ inner' = None
            /\ IF inner # None
               THEN /\ tasks' = moved(i :> "closing")
                    /\ UNCHANGED <<mutex, lua_queue>>
               ELSE /\ mutex' = unlock(mutex)
                    /\ tasks' = moved((i :> "done") @@ woken(mutex))
                    /\ lua_queue' = disconnect_reports(i, TRUE)
    /\ UNCHANGED <<spawned, worker_threads, runq, transaction_coroutine_ref,
                   txns, co, running, waiting_on, calls>>
    /\ raised' = NoError
    /\ returned' = None
    /\ UNCHANGED conn_userdata
    /\ UNCHANGED waiter
    /\ UNCHANGED avars

\* Conn::disconnect: conn.close() returned.
disconnect_closed(i) ==
    /\ tasks[i].kind = "disconnect"
    /\ tasks[i].pc = "closing"
    /\ \E ok \in BOOLEAN : lua_queue' = disconnect_reports(i, ok)
    /\ mutex' = unlock(mutex)
    /\ tasks' = moved((i :> "done") @@ woken(mutex))
    /\ UNCHANGED <<spawned, worker_threads, runq, inner, state,
                   transaction_coroutine_ref, txns, co, running, waiting_on,
                   calls>>
    /\ raised' = NoError
    /\ returned' = None
    /\ UNCHANGED conn_userdata
    /\ UNCHANGED waiter
    /\ UNCHANGED avars

\* The task of __gc with the lock: the guard is dropped at once; unless the
\* state is Disconnected the task goes on as a Conn::disconnect, and locks
\* again.
gc_locked(i) ==
    /\ tasks[i].kind = "gc"
    /\ tasks[i].pc = "locked"
    /\ LET freed == unlock(mutex) IN
       IF state = "Disconnected"
       THEN /\ mutex' = freed
            /\ tasks' = moved((i :> "done") @@ woken(mutex))
       ELSE /\ mutex' = lock(freed, i)
            /\ tasks' = [moved((i :> after_lock(freed, i)) @@ woken(mutex))
                            EXCEPT ![i].kind = "disconnect"]
    /\ UNCHANGED <<spawned, worker_threads, runq, inner, state,
                   transaction_coroutine_ref, txns, co, running, waiting_on,
                   lua_queue, calls>>
    /\ raised' = NoError
    /\ returned' = None
    /\ UNCHANGED conn_userdata
    /\ UNCHANGED waiter
    /\ UNCHANGED avars

\* What internal_query and Conn::ping bail with when the mutex holds no
\* connection.
NotEstablishedErr ==
    Err("NotSqlx", "-", <<"connection is not established">>, FALSE, 0)

\* The closure that gives the error of a bailed internal_query to the
\* callback of the query.
bailed_Succeeded(kind, task) ==
    [kind |-> kind, txn |-> tasks[task].txn, ok |-> TRUE, query |-> task]

bailed(kind, task) ==
    [kind |-> kind, txn |-> tasks[task].txn, ok |-> FALSE,
     err |-> NotEstablishedErr, query |-> task]

\* The closure a finished query gives to wait_lua_tick: the Query is moved
\* into it, with the callbacks it was made with (the Query is named by the
\* task that ran it), and for a query of a transaction the coroutine that
\* is resumed with the result.
query_closure_Shared(kind, task, ok) ==
    [kind |-> kind, txn |-> tasks[task].txn, ok |-> ok, query |-> 0]

query_closure(kind, task, ok) ==
    [kind |-> kind, txn |-> tasks[task].txn, ok |-> ok, query |-> task]

\* conn:Ping, the values the call returns: true, or false and the error.
lua_ping_returns(res) ==
    [ok |-> res.ok, err |-> IF res.ok THEN None ELSE Some(res.err)]

\* internal_query and Conn::ping with the lock: without a connection they
\* bail.
query_locked(i) ==
    /\ tasks[i].kind \in {"query", "ping"}
    /\ tasks[i].pc = "locked"
    /\ IF inner = None
       THEN /\ mutex' = unlock(mutex)
            /\ tasks' = moved((i :> "done") @@ woken(mutex))
            /\ IF tasks[i].kind = "query"
               THEN /\ lua_queue' = Append(lua_queue, bailed("query", i))
                    /\ waiting_on' = waiting_on
                    /\ waiter' = waiter
                    /\ returned' = None
               ELSE /\ lua_queue' = lua_queue
                    /\ waiting_on' = 0
                    /\ waiter' = waiter_after
                    /\ returned' = Some(lua_ping_returns(Failed(NotEstablishedErr)))
       ELSE /\ tasks' = moved(i :> "executing")
            /\ UNCHANGED <<mutex, lua_queue, waiting_on, waiter>>
            /\ returned' = None
    /\ UNCHANGED <<spawned, worker_threads, runq, inner, state,
                   transaction_coroutine_ref, txns, co, running, calls>>
    /\ raised' = NoError
    /\ UNCHANGED conn_userdata
    /\ UNCHANGED avars

\* internal_query and Conn::ping: query.start / ping returned.
query_done(i) ==
    /\ tasks[i].kind \in {"query", "ping"}
    /\ tasks[i].pc = "executing"
    /\ mutex' = unlock(mutex)
    /\ tasks' = moved((i :> "done") @@ woken(mutex))
    /\ IF tasks[i].kind = "query"
       THEN /\ \E ok \in BOOLEAN :
                  lua_queue' = Append(lua_queue, query_closure("query", i, ok))
            /\ waiting_on' = waiting_on
            /\ waiter' = waiter
            /\ returned' = None
       ELSE /\ lua_queue' = lua_queue
            /\ waiting_on' = 0
            /\ waiter' = waiter_after
            /\ \E res \in {Ok, Failed(IoErr("BrokenPipe"))} :
                  returned' = Some(lua_ping_returns(res))
    /\ UNCHANGED <<spawned, worker_threads, runq, inner, state,
                   transaction_coroutine_ref, txns, co, running, calls>>
    /\ raised' = NoError
    /\ UNCHANGED conn_userdata
    /\ UNCHANGED avars

\* Transaction::new with the owned lock: without a connection it bails and
\* the guard is dropped.
new_locked(i) ==
    /\ tasks[i].kind = "begin"
    /\ tasks[i].pc = "locked"
    /\ IF inner = None
       THEN /\ mutex' = unlock(mutex)
            /\ tasks' = moved((i :> "done") @@ woken(mutex))
            /\ lua_queue' = wait_lua_tick("begin", i, FALSE)
       ELSE /\ tasks' = moved(i :> "executing")
            /\ UNCHANGED <<mutex, lua_queue>>
    /\ UNCHANGED <<spawned, worker_threads, runq, inner, state,
                   transaction_coroutine_ref, txns, co, running, waiting_on,
                   calls>>
    /\ raised' = NoError
    /\ returned' = None
    /\ UNCHANGED conn_userdata
    /\ UNCHANGED waiter
    /\ UNCHANGED avars

\* Transaction::new: what becomes of the owned guard when `SET autocommit =
\* 0; BEGIN;` succeeded: it is kept in the Transaction.
guard_kept_Dropped(m) == unlock(m)
guard_kept(m) == m

\* Transaction::new: `SET autocommit = 0; BEGIN;` returned.  On success the
\* Transaction keeps the owned guard; on failure the guard is dropped.
\* `gen0` is no field of Transaction: it records the generation id at the
\* time of the lease, for the properties that speak of it.
new_done(i) ==
    /\ tasks[i].kind = "begin"
    /\ tasks[i].pc = "executing"
    /\ \E ok \in BOOLEAN :
          /\ lua_queue' = wait_lua_tick("begin", i, ok)
          /\ IF ok
             THEN /\ txns' = (i :> [open |-> TRUE, finalizing |-> FALSE,
                                    conn_guard |-> TRUE, coroutine_ref |-> i,
                                    userdata |-> "none", mu |-> Unlocked,
                                    gen0 |-> meta.id])
                             @@ txns
                  /\ mutex' = guard_kept(mutex)
                  /\ tasks' = moved((i :> "done")
                                    @@ (IF guard_kept(mutex) = mutex
                                        THEN [t \in {} |-> "locked"]
                                        ELSE woken(mutex)))
             ELSE /\ txns' = txns
                  /\ mutex' = unlock(mutex)
                  /\ tasks' = moved((i :> "done") @@ woken(mutex))
    /\ UNCHANGED <<spawned, worker_threads, runq, inner, state,
                   transaction_coroutine_ref, co, running, waiting_on, calls>>
    /\ raised' = NoError
    /\ returned' = None
    /\ UNCHANGED conn_userdata
    /\ UNCHANGED waiter
    /\ UNCHANGED avars

\* A query or a finalize of transaction t begins with a lock of the
\* Transaction.
txn_lock(i) ==
    /\ polled(i)
    /\ tasks[i].kind \in {"txn_query", "txn_ping", "finalize"}
    /\ LET t == tasks[i].txn IN
          /\ tasks' = moved(i :> after_lock(txns[t].mu, i))
          /\ txns' = [txns EXCEPT ![t].mu = lock(@, i)]
    /\ UNCHANGED <<spawned, worker_threads, mutex, inner, state,
                   transaction_coroutine_ref, co, running, waiting_on,
                   lua_queue, calls>>
    /\ raised' = NoError
    /\ returned' = None
    /\ UNCHANGED conn_userdata
    /\ UNCHANGED waiter
    /\ UNCHANGED avars

\* Transaction query with the Transaction locked: get_connection! panics
\* when the guard is gone, and the task dies without a callback.
txn_query_locked(i) ==
    /\ tasks[i].kind \in {"txn_query", "txn_ping"}
    /\ tasks[i].pc = "locked"
    /\ LET t == tasks[i].txn IN
       IF ~txns[t].conn_guard \/ inner = None
       THEN /\ txns' = [txns EXCEPT ![t].mu = unlock(@)]
            /\ tasks' = moved((i :> "panicked") @@ woken(txns[t].mu))
       ELSE /\ tasks' = moved(i :> "executing")
            /\ txns' = txns
    /\ UNCHANGED <<spawned, worker_threads, runq, mutex, inner, state,
                   transaction_coroutine_ref, co, running, waiting_on,
                   lua_queue, calls>>
    /\ raised' = NoError
    /\ returned' = None
    /\ UNCHANGED conn_userdata
    /\ UNCHANGED waiter
    /\ UNCHANGED avars

\* Transaction query: query.start returned.
txn_query_done(i) ==
    /\ tasks[i].kind \in {"txn_query", "txn_ping"}
    /\ tasks[i].pc = "executing"
    /\ LET t == tasks[i].txn IN
          /\ txns' = [txns EXCEPT ![t].mu = unlock(@)]
          /\ tasks' = moved((i :> "done") @@ woken(txns[t].mu))
    /\ IF tasks[i].kind = "txn_query"
       THEN /\ \E ok \in BOOLEAN :
                  lua_queue' = Append(lua_queue, query_closure("txn_query", i, ok))
            /\ waiting_on' = waiting_on
            /\ waiter' = waiter
       ELSE /\ lua_queue' = lua_queue
            /\ waiting_on' = 0
            /\ waiter' = waiter_after
    /\ UNCHANGED <<spawned, worker_threads, runq, mutex, inner, state,
                   transaction_coroutine_ref, co, running, calls>>
    /\ raised' = NoError
    /\ returned' = None
    /\ UNCHANGED conn_userdata
    /\ UNCHANGED avars

\* The closure a finished finalize gives to wait_lua_tick: only the
\* finalize of txn:Commit / txn:Rollback resumes the coroutine.
finalize_reports(i, ok) ==
    IF tasks[i].origin = "call" THEN wait_lua_tick("finalize", i, ok)
    ELSE lua_queue

\* The rollback task of Transaction::resume, holding the Transaction, prints
\* "forgot to finalize transaction!" when the transaction is open and the
\* coroutine returned; the task of __gc prints nothing.
forgot_to_finalize(i) ==
    /\ tasks[i].origin = "resume"
    /\ is_open(tasks[i].txn)

\* Transaction::set_open
set_open_Forgotten(t, open) == txns

set_open(t, open) == [txns EXCEPT ![t].open = open]

\* Transaction::finalize returns Ok at once when the transaction is not open.
already_closed_Never(t) == FALSE

already_closed(t) == ~txns[t].open

\* Transaction::finalize with the Transaction locked: a closed transaction
\* returns Ok; an open one is closed and COMMIT / ROLLBACK is sent.
finalize_locked(i) ==
    /\ tasks[i].kind = "finalize"
    /\ tasks[i].pc = "locked"
    /\ LET t == tasks[i].txn IN
       IF already_closed(t)
       THEN /\ txns' = [txns EXCEPT ![t].mu = unlock(@)]
            /\ tasks' = moved((i :> "done") @@ woken(txns[t].mu))
            /\ lua_queue' = finalize_reports(i, TRUE)
       ELSE /\ txns' = set_open(t, FALSE)
            /\ tasks' = moved(i :> "commit")
            /\ lua_queue' = lua_queue
    /\ UNCHANGED <<spawned, worker_threads, runq, mutex, inner, state,
                   transaction_coroutine_ref, co, running, waiting_on, calls>>
    /\ raised' = NoError
    /\ returned' = None
    /\ UNCHANGED conn_userdata
    /\ UNCHANGED waiter
    /\ UNCHANGED avars

\* Transaction::finalize: COMMIT / ROLLBACK returned; `SET autocommit = 1`
\* is sent whatever the result.
finalize_sent(i) ==
    /\ tasks[i].kind = "finalize"
    /\ tasks[i].pc = "commit"
    /\ \E ok \in BOOLEAN :
          tasks' = moved(i :> (IF ok THEN "autocommit" ELSE "autocommit_failed"))
    /\ UNCHANGED <<spawned, worker_threads, runq, mutex, inner, state,
                   transaction_coroutine_ref, txns, co, running, waiting_on,
                   lua_queue, calls>>
    /\ raised' = NoError
    /\ returned' = None
    /\ UNCHANGED conn_userdata
    /\ UNCHANGED waiter
    /\ UNCHANGED avars

\* What Transaction::finalize returns, given whether COMMIT / ROLLBACK and
\* `SET autocommit = 1` succeeded: the first result, the second is dropped.
finalize_result_Both(committed, restored) == committed /\ restored

finalize_result(committed, restored) == committed

\* Transaction::finalize: `SET autocommit = 1` returned, its result is
\* dropped; the guard is dropped, the marker of the connection cleared.
\* Transaction::finalize: `self.conn_guard.take()`, what is left in the
\* Transaction of the guard `g`.
take_guard_Leaves(g) == g

take_guard(g) == FALSE

finalize_done(i) ==
    /\ tasks[i].kind = "finalize"
    /\ tasks[i].pc \in {"autocommit", "autocommit_failed"}
    /\ LET t == tasks[i].txn IN
          /\ txns' = [txns EXCEPT ![t].conn_guard = take_guard(@),
                                   ![t].mu = unlock(@)]
          /\ tasks' = moved((i :> "done") @@ woken(txns[t].mu) @@ woken(mutex))
    /\ mutex' = unlock(mutex)
    /\ transaction_coroutine_ref' = LUA_NOREF
    /\ \E restored \in BOOLEAN :
          lua_queue' = finalize_reports(
              i, finalize_result(tasks[i].pc = "autocommit", restored))
    /\ UNCHANGED <<spawned, worker_threads, runq, inner, state, co, running,
                   waiting_on, calls>>
    /\ raised' = NoError
    /\ returned' = None
    /\ UNCHANGED conn_userdata
    /\ UNCHANGED waiter
    /\ UNCHANGED avars

\* ------------------------------------------------------------------------
\* Initial state
\* ------------------------------------------------------------------------

\* Conn::new: no connection, NotConnected, no transaction.
LockInit ==
    /\ runq = <<>>
    /\ tasks = [t \in {} |-> 0]
    /\ spawned = 0
    /\ mutex = Unlocked
    /\ inner = None
    /\ state = "NotConnected"
    /\ transaction_coroutine_ref = LUA_NOREF
    /\ txns = [t \in {} |-> 0]
    /\ co = [t \in {} |-> "new"]
    /\ running = MainThread
    /\ waiting_on = 0
    /\ waiter = MainThread
    /\ lua_queue = <<>>
    /\ calls = 0
    /\ raised = NoError
    /\ returned = None
    /\ conn_userdata = "live"

Init ==
    /\ ActorInit
    /\ LockInit
    /\ worker_threads = DEFAULT_WORKER_THREADS

\* The runtime is built with the worker threads the host configured.
InitWorkers ==
    /\ ActorInit
    /\ LockInit
    /\ worker_threads \in DEFAULT_WORKER_THREADS..MaxWorkers

\* The connection after a conn:Start that succeeded and whose callback has
\* run: connected, no task, no transaction.  Tasks and calls are counted
\* from here.
InitConnected ==
    /\ ActorInit
    /\ runq = <<>>
    /\ tasks = [t \in {} |-> 0]
    /\ spawned = 0
    /\ mutex = Unlocked
    /\ inner = Some("MySqlConnection")
    /\ state = "Connected"
    /\ transaction_coroutine_ref = LUA_NOREF
    /\ txns = [t \in {} |-> 0]
    /\ co = [t \in {} |-> "new"]
    /\ running = MainThread
    /\ waiting_on = 0
    /\ waiter = MainThread
    /\ lua_queue = <<>>
    /\ calls = 0
    /\ raised = NoError
    /\ returned = None
    /\ conn_userdata = "live"
    /\ worker_threads \in DEFAULT_WORKER_THREADS..MaxWorkers

\* ------------------------------------------------------------------------
\* Specifications
\* ------------------------------------------------------------------------

Worker ==
    \/ connect
    \/ connect_close
    \/ connect_with
    \/ disconnect
    \/ disconnect_close
    \/ ping
    \/ ping_done
    \/ query
    \/ query_start
    \/ query_ping
    \/ query_add
    \/ query_sleep
    \/ close

Next ==
    \/ Send
    \/ Tick
    \/ connect
    \/ connect_close
    \/ connect_with
    \/ disconnect
    \/ disconnect_close
    \/ ping
    \/ ping_done
    \/ query
    \/ query_start
    \/ query_ping
    \/ query_add
    \/ query_sleep
    \/ close

Spec == Init /\ [][Next]_vars

LockNext ==
    \/ start_connect
    \/ start_disconnect
    \/ start_query
    \/ lua_ping
    \/ internal_new
    \/ txn_internal_query
    \/ txn_ping
    \/ txn_finalize
    \/ txn_call_refused
    \/ conn_call_refused
    \/ coroutine_ends
    \/ on_tick
    \/ \E t \in DOMAIN txns : txn_gc(t)
    \/ conn_gc
    \/ \E i \in DOMAIN tasks : conn_lock(i)
    \/ \E i \in DOMAIN tasks : start_locked(i)
    \/ \E i \in DOMAIN tasks : start_closed(i)
    \/ \E i \in DOMAIN tasks : start_connected(i)
    \/ \E i \in DOMAIN tasks : disconnect_locked(i)
    \/ \E i \in DOMAIN tasks : disconnect_closed(i)
    \/ \E i \in DOMAIN tasks : gc_locked(i)
    \/ \E i \in DOMAIN tasks : query_locked(i)
    \/ \E i \in DOMAIN tasks : query_done(i)
    \/ \E i \in DOMAIN tasks : new_locked(i)
    \/ \E i \in DOMAIN tasks : new_done(i)
    \/ \E i \in DOMAIN tasks : txn_lock(i)
    \/ \E i \in DOMAIN tasks : txn_query_locked(i)
    \/ \E i \in DOMAIN tasks : txn_query_done(i)
    \/ \E i \in DOMAIN tasks : finalize_locked(i)
    \/ \E i \in DOMAIN tasks : finalize_sent(i)
    \/ \E i \in DOMAIN tasks : finalize_done(i)

LockSpec == InitWorkers /\ [][LockNext]_vars

\* The same design on a connection that is already connected.
ConnectedSpec == InitConnected /\ [][LockNext]_vars

\* The command handler with a Query taken from the channel of a connected
\* connection, about to start it: the Connect before it succeeded and its
\* callback has run.
InitQuery ==
    /\ chan = <<>>
    /\ sent = 2
    /\ closing = FALSE
    /\ conn = Some(1)
    /\ nobj = 1
    /\ meta = [state |-> "Connected", id |-> connected_id(0)]
    /\ task_queue = <<>>
    /\ pc = "query_start"
    /\ cur = [serial |-> 2, callback |-> LUA_NOREF]
    /\ result = Ok
    /\ delay = 0
    /\ attempt = 0
    /\ execs = [s \in Serials |-> 0]
    /\ delivered = [s \in Serials |-> IF s = 1 THEN <<Ok>> ELSE <<>>]
    /\ hist = [NoHist EXCEPT !.q = 2, !.state0 = "Connected",
                             !.id0 = connected_id(0), !.conn0 = Some(1),
                             !.done = FALSE]
    /\ LockInit
    /\ worker_threads = DEFAULT_WORKER_THREADS

\* query() from query.start on, for every error query.start can return.
ClassifyNext ==
    \/ query_start_from(AllOutcomes)
    \/ query_ping
    \/ query_add
    \/ query_sleep
    \/ connect_close
    \/ connect_with
    \/ Tick

ClassifySpec == InitQuery /\ [][ClassifyNext]_vars

\* A step of a task on a worker of the runtime.
TaskStep ==
    \E i \in DOMAIN tasks :
        \/ conn_lock(i) \/ start_locked(i) \/ start_closed(i)
        \/ start_connected(i) \/ disconnect_locked(i) \/ disconnect_closed(i)
        \/ gc_locked(i) \/ query_locked(i) \/ query_done(i)
        \/ new_locked(i) \/ new_done(i) \/ txn_lock(i)
        \/ txn_query_locked(i) \/ txn_query_done(i)
        \/ finalize_locked(i) \/ finalize_sent(i) \/ finalize_done(i)

\* The runtime keeps polling its tasks, the host keeps draining the task
\* queue (each tick, and inside wait_async), and a function of the script
\* that runs comes to its end.
FairConnectedSpec ==
    /\ ConnectedSpec
    /\ WF_vars(TaskStep) /\ WF_vars(on_tick) /\ WF_vars(coroutine_ends)

\* A connection driven through one of its two interfaces: the command
\* handlers, or the methods of Conn and Transaction.
EitherNext ==
    \/ (calls = 0 /\ spawned = 0 /\ Next)
    \/ (sent = 0 /\ LockNext)

EitherSpec == InitWorkers /\ [][EitherNext]_vars

\* The script is inside the function of a transaction that holds the lease,
\* and no task or callback of the connection is pending.
Quiet ==
    /\ running # MainThread
    /\ running \in DOMAIN txns
    /\ txns[running].conn_guard
    /\ DOMAIN tasks = {}
    /\ lua_queue = <<>>
    /\ waiting_on = 0

\* A script that connects, begins a transaction and runs statements in it,
\* with the command handlers at work while the transaction holds its lease.
LeaseNext ==
    \/ start_connect
    \/ internal_new
    \/ txn_internal_query
    \/ on_tick
    \/ \E i \in DOMAIN tasks : conn_lock(i)
    \/ \E i \in DOMAIN tasks : start_locked(i)
    \/ \E i \in DOMAIN tasks : start_connected(i)
    \/ \E i \in DOMAIN tasks : new_locked(i)
    \/ \E i \in DOMAIN tasks : new_done(i)
    \/ \E i \in DOMAIN tasks : txn_lock(i)
    \/ \E i \in DOMAIN tasks : txn_query_locked(i)
    \/ \E i \in DOMAIN tasks : txn_query_done(i)
    \/ (Quiet /\ Next)

LeaseSpec == Init /\ [][LeaseNext]_vars

\* The worker task is scheduled until it ends, every await of it returns
\* (network calls end in a result or an error, a sleep ends), and the host
\* keeps ticking.
FairSpec == Spec /\ WF_vars(Worker) /\ WF_vars(Tick)

\* ------------------------------------------------------------------------
\* Properties of the locked connection (LockSpec)
\* ------------------------------------------------------------------------

\* The positions at which a task has an operation running on the physical
\* connection: close, connect_with, a query or ping, COMMIT / ROLLBACK,
\* SET autocommit.
IoPcs ==
    {"closing", "connecting", "executing", "commit", "autocommit",
     "autocommit_failed"}

InIo(i) == tasks[i].pc \in IoPcs

\* The ordinary commands of a connection.
Ordinary(i) == tasks[i].kind \in {"start", "disconnect", "query", "ping"}

\* Task `i` has begun its work: it is past its lock().
Started(i) == tasks[i].pc \notin {"spawned", "waiting"}

\* Transaction `t` holds the owned guard of the connection.
Leased(t) == txns[t].conn_guard

\* C1: under every interleaving of host calls and worker tasks, no two
\* operations (connect, disconnect, ping, an ordinary query, a statement of
\* a transaction) run at the same time on the connection.
C1_OneOperationAtATime ==
    \A i \in DOMAIN tasks : \A j \in DOMAIN tasks :
        InIo(i) /\ InIo(j) => i = j

C1_Witness ==
    /\ worker_threads > DEFAULT_WORKER_THREADS
    /\ \E i \in DOMAIN tasks : \E j \in DOMAIN tasks :
          /\ j < i
          /\ tasks[i].kind = "query" /\ tasks[i].pc = "executing"
          /\ tasks[j].kind = "query" /\ tasks[j].pc = "waiting"

\* C2: ordinary commands of one connection complete in the order the host
\* submitted them: of two commands the earlier one has finished before the
\* later one starts, for every scheduling of the worker pool.
C2_SubmissionOrder ==
    \A i \in DOMAIN tasks : \A j \in DOMAIN tasks :
        (Ordinary(i) /\ Ordinary(j) /\ i < j) => ~Started(j)

\* C3: from the success of Begin until the finalize of the transaction
\* releases the guard, only statements of that transaction run on the
\* connection: no ordinary query, ping, connect or disconnect, no statement
\* of another transaction, and a second Begin gets no lease.
C3_LeaseExclusive ==
    \A t \in DOMAIN txns : Leased(t) =>
        /\ mutex.owner = t
        /\ \A u \in DOMAIN txns : Leased(u) => u = t
        /\ \A i \in DOMAIN tasks :
              /\ (tasks[i].kind \notin {"txn_query", "txn_ping", "finalize"}
                    => tasks[i].pc \in {"spawned", "waiting"})
              /\ (InIo(i) => tasks[i].txn = t)

C3_Witness ==
    \E t \in DOMAIN txns :
        /\ Leased(t)
        /\ txns[t].open
        /\ mutex.owner = t
        /\ \E j \in DOMAIN tasks :
              /\ tasks[j].kind = "begin"
              /\ tasks[j].pc = "waiting"
              /\ j \notin DOMAIN txns

\* ------------------------------------------------------------------------
\* Properties of the command handlers (Spec, FairSpec)
\* ------------------------------------------------------------------------

\* The transient errors as the design lists them, for the outcomes a query
\* can have in this model.
TransientOutcome(r) ==
    /\ ~r.ok
    /\ \/ r.err.variant = "Io" /\ r.err.kind = "ConnectionReset"
       \/ r.err.variant = "Database" /\ r.err.code = 2006

\* The outcomes of command `s` given to its continuation or waiting on the
\* task queue for it, oldest first.
RECURSIVE queued(_, _)
queued(q, s) ==
    IF q = <<>> THEN <<>>
    ELSE (IF Head(q).serial = s THEN <<Head(q).res>> ELSE <<>>) \o queued(Tail(q), s)

outcomes(s) == delivered[s] \o queued(task_queue, s)

\* A query is being handled, or was the last command handled, and
\* query.start ran it with the outcome `result`.
Handled == hist.q # 0 /\ execs[hist.q] > 0

\* The reconnect loop of the query is running.
Reconnecting ==
    /\ pc \in {"query_sleep", "connect_close", "connect_with"}
    /\ cur.callback = LUA_NOREF

\* C4: a failing query moves the state to NotConnected only after a
\* transient error whose confirming ping failed, and a transient error
\* whose confirming ping succeeded leaves the state as it was.
C4_StateLostOnlyAfterFailedPing ==
    Handled =>
        /\ (meta.state = "NotConnected" /\ hist.state0 # "NotConnected"
                => TransientOutcome(result) /\ hist.pings = 1 /\ ~hist.pingok)
        /\ (TransientOutcome(result) /\ hist.pings = 1 /\ hist.pingok
                => meta.state = hist.state0)

\* C5: after a transient error whose confirming ping succeeded there is no
\* reconnect attempt, the connection object is kept and the generation id
\* is unchanged.
C5_NoRecoveryAfterGoodPing ==
    (Handled /\ TransientOutcome(result) /\ hist.pings = 1 /\ hist.pingok) =>
        /\ hist.attempts = 0
        /\ conn = hist.conn0
        /\ meta.id = hist.id0

\* C6: a query failing with a non-transient error causes no ping, no state
\* change and no connect attempt; state, generation id and connection
\* object are as before the query, and the error goes to its caller as is.
C6_NonTransientLeavesConnection ==
    (Handled /\ ~result.ok /\ ~TransientOutcome(result)) =>
        /\ hist.pings = 0
        /\ hist.attempts = 0
        /\ meta.state = hist.state0
        /\ meta.id = hist.id0
        /\ conn = hist.conn0
        /\ outcomes(hist.q) = <<result>>

C6_Witness ==
    /\ Handled
    /\ hist.done
    /\ result = Failed(DbErr(1064))
    /\ delivered[hist.q] = <<result>>
    /\ meta.state = "Connected"

\* C7: one reconnection makes at most 7 connect attempts, none after the
\* first successful one, and ends, the worker being ready for the next
\* command.
C7_ReconnectionBounded ==
    /\ [](hist.attempts <= 7)
    /\ [](hist.succ > 0 => hist.succ = 1 /\ hist.done /\ ~Reconnecting)
    /\ (Reconnecting ~> (pc = "idle" /\ hist.done))

C7_Witness ==
    /\ hist.attempts = 7
    /\ hist.succ = 0
    /\ hist.done
    /\ pc = "idle"

\* C8: the delay waited right before the k-th connect attempt of a
\* reconnection is k+1, whatever the earlier attempts gave.
C8_DelaySequence ==
    /\ Len(hist.slept) = hist.attempts
    /\ \A k \in 1..Len(hist.slept) : hist.slept[k] = k + 1

C8_Witness ==
    /\ hist.slept = <<2, 3, 4>>
    /\ hist.succ = 1

\* C9: the generation id grows by exactly 1 in a step that completes a
\* successful connect and is unchanged by every other step; after a
\* reconnection whose 7 attempts all failed it has its value from before.
C9_GenerationId ==
    /\ [][IF pc = "connect_with" /\ meta'.state = "Connected"
          THEN meta'.id = meta.id + 1
          ELSE meta'.id = meta.id]_vars
    /\ [](hist.attempts = 7 /\ hist.succ = 0 /\ hist.done
            => meta.id = hist.id0)

C9_Witness ==
    /\ hist.attempts = 7
    /\ hist.succ = 0
    /\ hist.done
    /\ meta.id = 1
    /\ meta.state = "NotConnected"

\* C10: the error of a query that triggers reconnection goes to that
\* query's continuation, exactly once, whether the reconnection succeeds
\* or fails, and no query is executed a second time.
C10_ErrorStillDelivered ==
    /\ [](\A s \in Serials : execs[s] <= 1)
    /\ [](hist.pings = 1 => TransientOutcome(result))
    /\ [](Handled /\ hist.pings = 1 /\ pc # "query_add"
            => ~result.ok /\ outcomes(hist.q) = <<result>>)
    /\ \A s \in 1..MaxCmds :
          \A r \in {o \in QueryOutcomes : TransientOutcome(o)} :
             (hist.q = s /\ hist.pings = 1 /\ result = r)
                ~> (delivered[s] = <<r>>)

C10_Witness ==
    /\ Handled
    /\ hist.done
    /\ hist.succ = 1
    /\ hist.attempts > 1
    /\ delivered[hist.q] = <<Failed(IoErr("ConnectionReset"))>>
    /\ execs[hist.q] = 1

\* The step is the entry of the Disconnect handler.
DisconnectStep ==
    /\ pc = "idle"
    /\ chan # <<>>
    /\ Head(chan).type = "Disconnect"
    /\ chan' = Tail(chan)

\* C11 as stated: after all 7 reconnect attempts failed the state is
\* NotConnected, and it stays NotConnected through every later command
\* until an explicit Connect.
C11_StaysNotConnected ==
    hist.gaveup => meta.state = "NotConnected"

\* C11 as amended: after all 7 reconnect attempts failed the state is
\* NotConnected and there is no connection object; until an explicit
\* Connect no connection is made, every later Query and Ping leaves the
\* state NotConnected, and only a Disconnect changes it, to Disconnected.
C11_NotConnectedUntilConnectOrDisconnect ==
    /\ [](hist.gaveup => /\ conn = None
                          /\ meta.state \in {"NotConnected", "Disconnected"})
    /\ [](hist.gaveup /\ hist.attempts = 7 => meta.state = "NotConnected")
    /\ [][(hist.gaveup /\ hist'.gaveup /\ meta'.state # meta.state)
            => (DisconnectStep /\ meta'.state = "Disconnected")]_vars

C11_Witness ==
    /\ hist.gaveup
    /\ sent = 3
    /\ hist.q = 3
    /\ hist.done
    /\ delivered[3] = <<Failed(NotOpenErr)>>
    /\ meta.state = "NotConnected"

StepsFromLocked(i) ==
    /\ i \in DOMAIN tasks
    /\ tasks[i].pc = "locked"
    /\ (i \notin DOMAIN tasks' \/ tasks'[i].pc # "locked")

\* The script called method `call` of transaction `t` and got `error`.
Refused(error, call, t) ==
    /\ raised.error = error
    /\ raised.call = call
    /\ raised.txn = t

\* C13 as stated: Commit or Rollback called on a transaction that is already
\* closed is not an error, the caller is told it succeeded.
C13_FinalizeOnClosedSucceeds ==
    \A t \in DOMAIN txns :
        ~txns[t].open => ~Refused("transaction is closed", "finalize", t)

\* C13 amended: Transaction::finalize run on a closed transaction (for the
\* dropped handle or the ended coroutine) sends no SQL, changes neither the
\* transaction nor the connection and reports no failure; Commit or Rollback
\* called by the script on a closed transaction is refused with "transaction
\* is closed", and that too sends no SQL and changes nothing.
C13_ClosedFinalizeChangesNothing ==
    [][/\ \A i \in DOMAIN tasks :
            (/\ tasks[i].kind = "finalize"
             /\ ~txns[tasks[i].txn].open
             /\ StepsFromLocked(i))
            => /\ i \notin DOMAIN tasks'
               /\ txns' = [txns EXCEPT ![tasks[i].txn].mu = txns'[tasks[i].txn].mu]
               /\ UNCHANGED <<mutex, inner, state, transaction_coroutine_ref>>
               /\ \A k \in 1..Len(lua_queue') :
                     k > Len(lua_queue) => lua_queue'[k].ok
       /\ \A t \in DOMAIN txns :
            (~txns[t].open /\ raised'.call = "finalize" /\ raised'.txn = t)
            => /\ raised'.error = "transaction is closed"
               /\ UNCHANGED <<tasks, runq, spawned, txns, mutex, inner, state,
                              transaction_coroutine_ref, lua_queue>>
      ]_vars

\* C13 witness: the script was refused a Commit on a closed transaction while
\* the rollback of its ended coroutine is still to run on it.
C13_Witness ==
    \E t \in DOMAIN txns :
        /\ ~txns[t].open
        /\ Refused("transaction is closed", "finalize", t)
        /\ \E i \in DOMAIN tasks :
              /\ tasks[i].kind = "finalize"
              /\ tasks[i].txn = t
              /\ tasks[i].origin = "resume"

\* The finalize tasks of transaction `t` at one of the places `pcs`.
Finalizes(t, pcs) ==
    {i \in DOMAIN tasks :
        tasks[i].kind = "finalize" /\ tasks[i].txn = t /\ tasks[i].pc \in pcs}

\* Transaction `t` was dropped: its coroutine is dead or its handle collected.
Dropped(t) == co[t] = "dead" \/ txns[t].userdata = "collected"

\* C14: a transaction that is open when it is dropped gets exactly one
\* ROLLBACK.  Not zero: while it is dropped and open a rollback task is on its
\* way to the Transaction, and the task that finds it open sends ROLLBACK.
\* Not two: the task that sends ROLLBACK closes the transaction in the same
\* step, a closed transaction is never opened again, and so at most one
\* task is ever at the statement, whichever of the two paths came first.
C14_ExactlyOneRollback ==
    /\ [](\A t \in DOMAIN txns :
            /\ (Dropped(t) /\ txns[t].open)
                 => Finalizes(t, {"spawned", "waiting", "locked"}) # {}
            /\ Cardinality(Finalizes(t, {"commit"})) <= 1
            /\ Finalizes(t, {"commit"}) # {} => ~txns[t].open)
    /\ [][\A t \in DOMAIN txns :
            /\ ~txns[t].open => ~txns'[t].open
            /\ \A i \in Finalizes(t, {"locked"}) :
                  (txns[t].open /\ StepsFromLocked(i))
                  => (i \in DOMAIN tasks' /\ tasks'[i].pc = "commit"
                      /\ ~txns'[t].open)
            /\ \A i \in DOMAIN tasks' :
                  (tasks'[i].kind = "finalize" /\ tasks'[i].txn = t
                   /\ tasks'[i].pc = "commit" /\ tasks[i].pc # "commit")
                  => txns[t].open
       ]_vars

\* C14 witness: the handle was collected and the coroutine finished; the
\* rollback of the collector got the Transaction first and has sent ROLLBACK,
\* the rollback of the finished coroutine is behind it.
C14_Witness ==
    \E t \in DOMAIN txns :
        /\ Dropped(t)
        /\ \E i \in Finalizes(t, {"commit"}) : tasks[i].origin = "gc"
        /\ \E j \in Finalizes(t, {"spawned", "waiting"}) :
              tasks[j].origin = "resume"

\* C15: whenever a transaction is rolled back because it was discarded, by
\* the task of the collector or by the task of the ended coroutine, the task
\* that sends the ROLLBACK raises the diagnostic that the transaction was
\* never finalized.
C15_AbandonmentDiagnosed ==
    [][\A i \in DOMAIN tasks :
          (/\ tasks[i].kind = "finalize"
           /\ tasks[i].origin # "call"
           /\ txns[tasks[i].txn].open
           /\ StepsFromLocked(i))
          => forgot_to_finalize(i)
      ]_vars

\* The errors of the lease-violation class: what Transaction::extract_userdata
\* bails with.
LeaseViolation ==
    {"transaction is closed",
     "transaction can only be accessed from the coroutine it was created in"}

\* The step is a call on transaction `t` that was accepted: it spawned the
\* task of a query, a ping or a finalize of `t`.
Accepted(t) ==
    \E i \in DOMAIN tasks' \ DOMAIN tasks :
        /\ tasks'[i].txn = t
        /\ tasks'[i].origin = "call"
        /\ tasks'[i].kind \in {"txn_query", "txn_ping", "finalize"}

\* The step is a call rejected before anything was spawned: it changes
\* neither the tasks, nor the transactions, nor the connection.
NothingDone ==
    UNCHANGED <<tasks, runq, spawned, txns, mutex, inner, state,
                transaction_coroutine_ref, lua_queue, co, running>>

\* C16: a query, ping, commit or rollback of a transaction made by another
\* thread than the coroutine the transaction was created for, the main
\* thread of the host included, is never accepted: it raises an error of the
\* lease-violation class, no task is spawned (no SQL is sent) and the state
\* of the transaction is unchanged.
C16_ForeignContinuationRejected ==
    [][\A t \in DOMAIN txns :
          /\ (Accepted(t) \/ txns'[t].finalizing # txns[t].finalizing)
               => (running = txns[t].coroutine_ref /\ running # MainThread)
          /\ (raised'.txn = t /\ running # txns[t].coroutine_ref)
               => (raised'.error \in LeaseViolation /\ NothingDone)
      ]_vars

\* C16 witness: while the coroutine of an open transaction is suspended the
\* main thread called a method of the transaction and was refused.
C16_Witness ==
    \E t \in DOMAIN txns :
        /\ is_open(t)
        /\ co[t] = "yield"
        /\ running = MainThread
        /\ raised.txn = t
        /\ raised.error =
              "transaction can only be accessed from the coroutine it was created in"

\* The step is a call on the ordinary surface of the connection that was
\* accepted: it spawned a connect, disconnect, query, ping or begin.
AcceptedOnConn ==
    \E i \in DOMAIN tasks' \ DOMAIN tasks :
        Ordinary(i)' \/ tasks'[i].kind = "begin"

\* The step is a call that makes the host thread wait for a task that needs
\* the lock of the connection: conn:Ping.
WaitsForConn ==
    /\ waiting_on = 0
    /\ waiting_on' \in DOMAIN tasks'
    /\ tasks'[waiting_on'].kind = "ping"

\* C17: while a transaction holds the lock of the connection, no call on the
\* ordinary surface of the connection made by the coroutine of that
\* transaction is accepted, and so the host thread never starts to wait,
\* inside a call of that coroutine, for the lock its own transaction holds,
\* however many Begin calls were made on the connection.
C17_OwnerFailsFast ==
    [][\A t \in DOMAIN txns :
          (Leased(t) /\ mutex.owner = t /\ running = txns[t].coroutine_ref)
          => (~AcceptedOnConn /\ ~WaitsForConn)
      ]_vars

\* C18: once Commit or Rollback was called on a transaction, finalizing is
\* set, and from then on, already before COMMIT / ROLLBACK has run, no query
\* and no ping of the transaction is accepted: each is refused with
\* "transaction is closed", spawns no task and changes nothing.
C18_FinalizingRejectsQueries ==
    [][\A t \in DOMAIN txns :
          /\ Finalizes(t, {"spawned", "waiting", "locked", "commit",
                           "autocommit", "autocommit_failed"}) # {}
               => (txns[t].finalizing \/ Dropped(t))
          /\ txns[t].finalizing =>
               /\ txns'[t].finalizing
               /\ \A i \in DOMAIN tasks' \ DOMAIN tasks :
                     ~(tasks'[i].txn = t
                       /\ tasks'[i].kind \in {"txn_query", "txn_ping"})
               /\ (raised'.txn = t /\ raised'.call \in {"query", "ping"})
                    => (raised'.error = "transaction is closed" /\ NothingDone)
      ]_vars

\* C18 witness: Commit was called and its COMMIT has not run yet, the
\* transaction is still open, and a query on it was refused.
C18_Witness ==
    \E t \in DOMAIN txns :
        /\ txns[t].open
        /\ txns[t].finalizing
        /\ Finalizes(t, {"spawned", "waiting", "locked"}) # {}
        /\ Refused("transaction is closed", "query", t)

\* Task `i` takes a step from place `at`.
StepsFrom(i, at) ==
    /\ tasks[i].pc = at
    /\ (i \notin DOMAIN tasks' \/ tasks'[i].pc # at)

\* C19: a finalize that found its transaction open sends `SET autocommit = 1`
\* after COMMIT / ROLLBACK whatever the result of that statement; when it
\* completes, whatever the two results, the guard of the connection is
\* dropped (the transaction has none, the mutex is no longer its), the
\* marker of the connection is LUA_NOREF, and what is reported to the caller
\* is the result of COMMIT / ROLLBACK alone.
C19_FinalizeAlwaysReleases ==
    [][\A i \in DOMAIN tasks : tasks[i].kind = "finalize" =>
          /\ StepsFrom(i, "commit")
               => (i \in DOMAIN tasks'
                   /\ tasks'[i].pc \in {"autocommit", "autocommit_failed"})
          /\ (StepsFrom(i, "autocommit") \/ StepsFrom(i, "autocommit_failed"))
               => /\ i \notin DOMAIN tasks'
                  /\ ~txns'[tasks[i].txn].conn_guard
                  /\ mutex'.owner # tasks[i].txn
                  /\ transaction_coroutine_ref' = LUA_NOREF
                  /\ IF tasks[i].origin = "call"
                     THEN /\ Len(lua_queue') = Len(lua_queue) + 1
                          /\ lua_queue'[Len(lua_queue')] =
                                [kind |-> "finalize", txn |-> tasks[i].txn,
                                 ok |-> (tasks[i].pc = "autocommit")]
                     ELSE lua_queue' = lua_queue
      ]_vars

\* C19 witness: the COMMIT of a transaction failed and its finalize has
\* completed: the failure is in the closure for the caller, the transaction
\* has no guard, the mutex is free or with another task, the marker is clear.
C19_Witness ==
    \E t \in DOMAIN txns :
        /\ ~txns[t].open
        /\ ~txns[t].conn_guard
        /\ mutex.owner # t
        /\ transaction_coroutine_ref = LUA_NOREF
        /\ Finalizes(t, {"spawned", "waiting", "locked", "commit",
                         "autocommit", "autocommit_failed"}) = {}
        /\ \E k \in 1..Len(lua_queue) :
              lua_queue[k] = [kind |-> "finalize", txn |-> t, ok |-> FALSE]

\* The Begin made for coroutine `c` has failed: its task is over and there is
\* no transaction of `c`.
FailedBegin(c) ==
    /\ c \in DOMAIN co
    /\ c \notin DOMAIN tasks
    /\ c \notin DOMAIN txns

\* The error of the failed Begin of `c` is on its way to the function or has
\* been given to it.
ErrorDelivered(c) ==
    \/ \E k \in 1..Len(lua_queue) :
          lua_queue[k] = [kind |-> "begin", txn |-> c, ok |-> FALSE]
    \/ co[c] # "new"

\* C20: after a Begin that failed there is no lease (the mutex of the
\* connection is not with the Begin), the error goes to the function given
\* to Begin, and calls on the connection are treated as if there had been
\* no Begin: none is refused as a call from inside a transaction when no
\* transaction holds the connection.
C20_FailedBeginLeavesNoTrace ==
    [][\A c \in DOMAIN co : FailedBegin(c) =>
          /\ mutex.owner # c
          /\ ErrorDelivered(c)
          /\ (running = c /\ \A t \in DOMAIN txns : ~Leased(t))
               => raised'.error # "DEADLOCK DETECTED"
      ]_vars

\* The command handler of a query found no connection object: the query has
\* exactly one outcome, an error with message `msg`; query.start never ran,
\* nothing was pinged or reconnected, the worker is back in its loop, and
\* state, generation id and connection object are as the query found them.
NotOpenQuery(msg) ==
    (hist.q # 0 /\ hist.conn0 = None) =>
        /\ Len(outcomes(hist.q)) = 1
        /\ ~outcomes(hist.q)[1].ok
        /\ outcomes(hist.q)[1].err.msg = msg
        /\ execs[hist.q] = 0
        /\ hist.pings = 0
        /\ hist.attempts = 0
        /\ pc \in {"idle", "closed"}
        /\ conn = None
        /\ meta.state = hist.state0
        /\ meta.id = hist.id0

\* The step of internal_query that finds no connection behind the mutex:
\* the task ends there without running the query, the closure queued for the
\* callback carries an error with message `msg`, nothing is spawned, and
\* state and connection are unchanged.
BailedQuery(msg) ==
    \A i \in DOMAIN tasks :
        (tasks[i].kind = "query" /\ inner = None /\ StepsFromLocked(i)) =>
            /\ i \notin DOMAIN tasks'
            /\ Len(lua_queue') = Len(lua_queue) + 1
            /\ ~lua_queue'[Len(lua_queue')].ok
            /\ lua_queue'[Len(lua_queue')].err.msg = msg
            /\ spawned' = spawned
            /\ inner' = None
            /\ state' = state

\* C21 as stated: a query issued when no connection object exists gets the
\* error "connection is not open" delivered to its continuation, with no
\* network activity, ping or reconnection and with state and generation id
\* unchanged, through the command handler and through Conn alike.
C21_NotOpenErrorDelivered ==
    /\ []NotOpenQuery(<<"connection is not open">>)
    /\ [][BailedQuery(<<"connection is not open">>)]_vars

\* C21 amended: as above, but the error is "connection is not open" from
\* the command handler and "connection is not established" from
\* Conn::internal_query.
C21_NotConnectedErrorDelivered ==
    /\ []NotOpenQuery(<<"connection is not open">>)
    /\ [][BailedQuery(<<"connection is not established">>)]_vars

\* C21 witness: the callback of a query started on a connection that was
\* never connected has been queued with the error of internal_query.
C21_Witness ==
    /\ inner = None
    /\ \E k \in 1..Len(lua_queue) :
          /\ lua_queue[k].kind = "query"
          /\ ~lua_queue[k].ok
          /\ "err" \in DOMAIN lua_queue[k]

\* The closures a step of the worker put on the task queue.
Added ==
    IF Len(task_queue') > Len(task_queue)
    THEN SubSeq(task_queue', Len(task_queue) + 1, Len(task_queue'))
    ELSE <<>>

\* The worker takes a Ping from the channel.
TakesPing == chan # <<>> /\ chan' = Tail(chan) /\ Head(chan).type = "Ping"

\* The Ping command: without a connection object the handler queues the
\* not-connected error for the callback at once and never awaits conn.ping();
\* with one it queues nothing until the round trip ended, and then exactly
\* one closure, which gives the callback the latency and no error when the
\* round trip succeeded and the error and no latency when it failed.  No
\* other step queues anything for a Ping, and a tick takes the oldest
\* closure off the queue and runs it once.
PingCommand ==
    /\ TakesPing =>
          IF conn = None
          THEN /\ pc' = "idle"
               /\ Len(Added) = 1
               /\ Added[1].kind = "ping"
               /\ Added[1].serial = Head(chan).serial
               /\ ping_callback(Added[1].res) =
                     [err |-> Some(NotOpenErr), latency |-> None]
          ELSE /\ pc' = "ping"
               /\ cur'.serial = Head(chan).serial
               /\ Added = <<>>
    /\ (pc = "ping" /\ pc' # "ping") =>
          /\ pc' = "idle"
          /\ Len(Added) = 1
          /\ Added[1].kind = "ping"
          /\ Added[1].serial = cur.serial
          /\ LET a == ping_callback(Added[1].res) IN
                IF Added[1].res.ok
                THEN a.err = None /\ a.latency # None
                ELSE a.err # None /\ a.latency = None
    /\ (~TakesPing /\ ~(pc = "ping" /\ pc' # "ping")) =>
          \A k \in 1..Len(Added) : Added[k].kind # "ping"
    /\ Len(task_queue') < Len(task_queue) =>
          /\ task_queue' = Tail(task_queue)
          /\ delivered' = [delivered EXCEPT ![Head(task_queue).serial] =
                              Append(@, Head(task_queue).res)]

\* conn:Ping of Conn, which returns `Values` of the result of Conn::ping to
\* the script: without a connection behind the mutex Conn::ping bails with
\* the not-connected error and conn.ping() is never awaited; with one, the
\* call returns once, when the round trip ended, the values of its result.
\* No other step returns anything for a Ping.
ConnPing(Values(_)) ==
    \A i \in DOMAIN tasks : tasks[i].kind = "ping" =>
        /\ (StepsFromLocked(i) /\ inner = None) =>
              /\ i \notin DOMAIN tasks'
              /\ waiting_on = i /\ waiting_on' = 0
              /\ returned' = Some(Values(Failed(NotEstablishedErr)))
        /\ (StepsFromLocked(i) /\ inner # None) =>
              /\ i \in DOMAIN tasks' /\ tasks'[i].pc = "executing"
              /\ waiting_on' = i
              /\ returned' = None
        /\ StepsFrom(i, "executing") =>
              /\ i \notin DOMAIN tasks'
              /\ waiting_on = i /\ waiting_on' = 0
              /\ \E res \in {Ok, Failed(IoErr("BrokenPipe"))} :
                    returned' = Some(Values(res))
        /\ (~StepsFromLocked(i) /\ ~StepsFrom(i, "executing")) =>
              returned' = None

TakesDisconnect ==
    chan # <<>> /\ chan' = Tail(chan) /\ Head(chan).type = "Disconnect"

\* The Disconnect command: the step that takes the command sets the state to
\* Disconnected and takes the connection object out, and only then is the
\* close awaited; when the close returns the state is Disconnected, and the
\* one closure queued for the callback carries the result of the close.
DisconnectCommand ==
    /\ TakesDisconnect =>
          /\ meta'.state = "Disconnected"
          /\ conn' = None
          /\ IF conn # None
             THEN pc' = "disconnect_close" /\ Added = <<>>
             ELSE pc' = "idle" /\ Len(Added) = 1 /\ Added[1].res = Ok
    /\ (pc = "disconnect_close" /\ pc' # "disconnect_close") =>
          /\ meta.state = "Disconnected"
          /\ meta'.state = "Disconnected"
          /\ conn' = None
          /\ pc' = "idle"
          /\ Len(Added) = 1
          /\ Added[1].kind = "disconnect"
          /\ Added[1].serial = cur.serial
          /\ Added[1].res = result'

\* Conn::disconnect: with the lock, on a connection that is Connected, it
\* sets the state to Disconnected and takes the connection object out before
\* the close is awaited (otherwise it changes nothing and closes nothing);
\* when the close returns the state is Disconnected and one closure is
\* queued for the callback of the call.
ConnDisconnect ==
    \A i \in DOMAIN tasks : tasks[i].kind = "disconnect" =>
        /\ StepsFromLocked(i) =>
              IF state = "Connected"
              THEN /\ state' = "Disconnected"
                   /\ inner' = None
                   /\ inner # None => (i \in DOMAIN tasks'
                                       /\ tasks'[i].pc = "closing")
              ELSE /\ state' = state
                   /\ inner' = inner
                   /\ i \notin DOMAIN tasks'
        /\ StepsFrom(i, "closing") =>
              /\ state = "Disconnected"
              /\ state' = "Disconnected"
              /\ inner' = None
              /\ i \notin DOMAIN tasks'
              /\ tasks[i].origin = "call" =>
                    /\ Len(lua_queue') = Len(lua_queue) + 1
                    /\ lua_queue'[Len(lua_queue')].kind = "disconnect"

\* While a Disconnect is closing the connection the state is Disconnected.
ClosingDisconnected ==
    /\ pc = "disconnect_close" => meta.state = "Disconnected"
    /\ \A i \in DOMAIN tasks :
          (tasks[i].kind = "disconnect" /\ tasks[i].pc = "closing")
              => state = "Disconnected"

\* C23: Disconnect sets the state to Disconnected before it attempts the
\* graceful close, the state is still Disconnected after the close whether
\* it succeeded or failed, and the result of the close, a failure included,
\* is what the continuation of the requester is given.
C23_DisconnectedBeforeClose ==
    /\ []ClosingDisconnected
    /\ [][DisconnectCommand]_vars
    /\ [][ConnDisconnect]_vars

\* C23 witness: a Disconnect whose close failed has ended; the state is
\* Disconnected and the failure is queued for its callback.
C23_Witness ==
    /\ pc = "idle"
    /\ meta.state = "Disconnected"
    /\ ~result.ok
    /\ task_queue # <<>>
    /\ task_queue[Len(task_queue)] =
          [kind |-> "disconnect", serial |-> cur.serial, res |-> result]

\* The step that ends a Connect command: connect_with returned to connect()
\* called with the callback of the requester.
ConnectCommandEnds ==
    pc = "connect_with" /\ pc' # "connect_with" /\ cur.callback # LUA_NOREF

\* The Connect command: connect_with is awaited only after the connection
\* object the worker held was taken out and closed; when it returns, one
\* closure is queued for the callback; it reports success exactly when the
\* state is now Connected, and then the worker holds a connection object
\* made by this attempt; otherwise the state is Error or NotConnected, no
\* connection object is held and the closure carries the error.
ConnectCommand ==
    /\ pc' = "connect_with" => conn' = None
    /\ ConnectCommandEnds =>
          /\ Len(Added) = 1
          /\ Added[1].kind = "connect"
          /\ Added[1].serial = cur.serial
          /\ Added[1].res.ok <=> meta'.state = "Connected"
          /\ Added[1].res.ok => (nobj' = nobj + 1 /\ conn' = Some(nobj'))
          /\ ~Added[1].res.ok =>
                /\ meta'.state \in {"Error", "NotConnected"}
                /\ conn' = None

\* A call of conn:Start ends: its task is over and the closure that calls
\* on_connected or on_error is queued.
StartEnds(i) ==
    /\ i \in DOMAIN tasks
    /\ tasks[i].kind = "start"
    /\ i \notin DOMAIN tasks'
    /\ Len(lua_queue') = Len(lua_queue) + 1

\* conn:Start of Conn: when it ends, it reports success exactly when the
\* state is now Connected, and then the mutex holds a connection object;
\* otherwise the state is Error or NotConnected and the mutex holds none.
ConnStart ==
    \A i \in DOMAIN tasks : StartEnds(i) =>
        LET cb == lua_queue'[Len(lua_queue')] IN
        /\ cb.kind = "start"
        /\ cb.ok <=> state' = "Connected"
        /\ cb.ok => inner' # None
        /\ ~cb.ok => (state' \in {"Error", "NotConnected"} /\ inner' = None)

\* C24: when a Connect completes, the state is Connected if and only if the
\* attempt succeeded, and then a new connection object has replaced the
\* previous one, which was closed first; when it failed the state is Error
\* or NotConnected, no connection object is held and the error is reported
\* to the continuation of the requester.
C24_ConnectedIffSucceeded ==
    /\ [][ConnectCommand]_vars
    /\ [][ConnStart]_vars

\* A step that makes the state Connected starts in state Connecting, in
\* ConnMeta and in Conn.
ThroughConnecting ==
    /\ (meta'.state = "Connected" /\ meta.state # "Connected")
          => meta.state = "Connecting"
    /\ (state' = "Connected" /\ state # "Connected")
          => state = "Connecting"

\* C25: the initial state of a connection is NotConnected, and the state
\* becomes Connected only by a step whose previous state is Connecting, for
\* a Connect and for an attempt of the reconnect loop.
C25_ConnectedOnlyFromConnecting ==
    /\ meta.state = "NotConnected"
    /\ state = "NotConnected"
    /\ [][ThroughConnecting]_vars

\* C25 witness: an attempt of the reconnect loop of a query has brought the
\* connection back to Connected.
C25_Witness ==
    /\ hist.q # 0
    /\ hist.succ = 1
    /\ meta.state = "Connected"

\* The worker takes a Connect from the channel.
TakesConnect == chan # <<>> /\ chan' = Tail(chan) /\ Head(chan).type = "Connect"

\* The step belongs to a Connect request: the worker takes a Connect command
\* or goes on with the one it took, or a task of conn:Start moves.
ConnectRequestStep ==
    \/ TakesConnect
    \/ pc \in {"connect_close", "connect_with"} /\ cur.callback # LUA_NOREF
    \/ \E i \in DOMAIN tasks :
          /\ tasks[i].kind = "start"
          /\ (i \notin DOMAIN tasks' \/ tasks'[i] # tasks[i])

\* C26: once the state is Disconnected or Error it changes only by a step of
\* an explicit Connect request; no query, ping, disconnect, transaction
\* operation or step of the reconnect loop changes it.
C26_TerminalUntilConnect ==
    [][/\ (meta.state \in {"Disconnected", "Error"} /\ meta'.state # meta.state)
            => (ConnectRequestStep /\ state' = state)
       /\ (state \in {"Disconnected", "Error"} /\ state' # state)
            => (ConnectRequestStep /\ meta' = meta)
      ]_vars

\* C26 witness: a conn:Start failed and left the state Error, a
\* conn:Disconnect made after it has ended, and the state is still Error.
C26_Witness ==
    /\ state = "Error"
    /\ DOMAIN tasks = {}
    /\ Len(lua_queue) = 2
    /\ lua_queue[1].kind = "start" /\ ~lua_queue[1].ok
    /\ lua_queue[2].kind = "disconnect"

\* A queue changes by a push at its end or by a poll that takes its head.
Pushed(q, r) == Len(r) > Len(q) /\ SubSeq(r, 1, Len(q)) = q

Polled(q, r) == q # <<>> /\ r = Tail(q)

\* C27: a callback a worker put on the Task Queue runs only in a poll made
\* by the host thread: the step that runs it takes the head of the queue,
\* is no step of a worker and no call of the script, and no script code is
\* running (the main thread polls, or the thread inside wait_async does);
\* the queues are pushed at the end and polled at the head, so callbacks run
\* in the order they were pushed.
C27_CallbacksRunInHostPoll ==
    [][/\ delivered' # delivered =>
            /\ Polled(task_queue, task_queue')
            /\ delivered' = [delivered EXCEPT ![Head(task_queue).serial] =
                                Append(@, Head(task_queue).res)]
            /\ UNCHANGED <<pc, chan, sent, conn, meta>>
       /\ task_queue' # task_queue =>
            \/ Polled(task_queue, task_queue') /\ delivered' # delivered
            \/ Pushed(task_queue, task_queue') /\ delivered' = delivered
       /\ (co' # co /\ \E t \in DOMAIN co : co[t] # "running" /\ co'[t] = "running")
            => Polled(lua_queue, lua_queue')
       /\ lua_queue' # lua_queue =>
            \/ /\ Polled(lua_queue, lua_queue')
               /\ (running = MainThread \/ Blocked)
               /\ UNCHANGED <<tasks, runq, mutex, calls, spawned>>
            \/ /\ Pushed(lua_queue, lua_queue')
               /\ Len(lua_queue') = Len(lua_queue) + 1
               /\ running' = running
      ]_vars

\* C27 witness: the callbacks of two commands have run, and a third waits on
\* the task queue.
C27_Witness ==
    /\ task_queue # <<>>
    /\ \E s \in Serials : \E u \in Serials :
          s < u /\ delivered[s] # <<>> /\ delivered[u] # <<>>

\* The worker takes a Close from the channel.
TakesClose == chan # <<>> /\ chan' = Tail(chan) /\ Head(chan).type = "Close"

\* C29: no outcome of a query ends the worker: the command loop ends only by
\* the step that takes a Close, and whatever a query did before (no
\* connection, an error that is not transient, a transient error with a
\* reconnection that succeeded or gave up), every command waiting on the
\* channel is eventually taken and its handler runs to its end.
C29_WorkerSurvivesQueryErrors ==
    /\ [][(pc' = "closed" /\ pc # "closed") => TakesClose]_vars
    /\ (chan # <<>>) ~> (chan = <<>> /\ pc \in {"idle", "closed"})

\* C29 witness: after a query whose reconnection gave up, a later command
\* that is not a query has been handled and its callback has run.
C29_Witness ==
    /\ hist.gaveup
    /\ hist.q = 0
    /\ pc = "idle"
    /\ chan = <<>>
    /\ cur.serial > 0
    /\ delivered[cur.serial] # <<>>

\* The operations on the connection that were spawned before task `i` and
\* have not been given the mutex yet.
PendingBefore(i) ==
    {j \in DOMAIN tasks :
        /\ j < i
        /\ tasks[j].kind \in {"start", "disconnect", "query", "ping", "begin"}
        /\ tasks[j].pc \in {"spawned", "waiting"}}

\* The task that __gc spawned is over.
GcOver ==
    /\ conn_userdata = "collected"
    /\ \A i \in DOMAIN tasks :
          ~(tasks[i].origin = "gc" /\ tasks[i].kind \in {"gc", "disconnect"})

\* C30: after the host released the handle of a connection, the operations
\* already under way on the connection finish first (when the disconnect of
\* __gc gets the mutex none that was spawned before it still waits for its
\* turn), and then the connection is disconnected: once the task of __gc is
\* over no connection object is held and the state is not Connected, the
\* step that closes is a step from Connected to Disconnected, and a
\* connection found Disconnected is not touched.
C30_ReleaseDisconnectsAfterPending ==
    /\ [](GcOver => (inner = None /\ state # "Connected"))
    /\ [][\A i \in DOMAIN tasks :
            /\ (tasks[i].kind = "gc" /\ StepsFromLocked(i)
                /\ state = "Disconnected") =>
                  (i \notin DOMAIN tasks' /\ UNCHANGED <<inner, state>>)
            /\ (tasks[i].origin = "gc" /\ tasks[i].kind = "disconnect"
                /\ StepsFromLocked(i)) =>
                  /\ PendingBefore(i) = {}
                  /\ inner # None =>
                        (state = "Connected" /\ state' = "Disconnected"
                         /\ inner' = None)
      ]_vars

\* The task the waiting thread waits for.
Awaited == tasks[waiting_on]

\* The thread inside wait_async is the coroutine of a transaction that holds
\* the connection, and it waits for an operation of the connection itself:
\* the work needs a step of the very thread that waits for it.
WaitsForItself ==
    /\ waiter \in DOMAIN txns
    /\ Leased(waiter)
    /\ Awaited.kind = "ping"

\* The work a synchronous call waits for cannot complete: it needs the
\* waiting thread to go on.
CannotComplete ==
    /\ waiting_on # 0
    /\ WaitsForItself

\* C28: a synchronous call returns whenever its work can complete, also when
\* the work needs a closure of the task queue to run first: every wait ends
\* unless its work cannot complete (and then no step ever ends it), and
\* while a call waits the closures of the task queue are run by the thread
\* that waits.
C28_SyncCallReturns ==
    /\ (waiting_on # 0) ~> (waiting_on = 0 \/ CannotComplete)
    /\ [][CannotComplete => CannotComplete']_vars
    /\ [][(waiting_on # 0 /\ Len(lua_queue') < Len(lua_queue)) =>
            running = waiter]_vars

\* C28, witness: the main thread waits for a ping that waits for the mutex,
\* the mutex belongs to a transaction, and the coroutine of the transaction
\* runs, resumed from inside the wait.
C28_Witness ==
    /\ waiting_on # 0
    /\ waiter = MainThread
    /\ Awaited.kind = "ping"
    /\ Awaited.pc = "waiting"
    /\ running \in DOMAIN txns
    /\ Leased(running)

\* The query whose handler last ran is past the point where query() hands
\* its outcome to the task queue.
QueryReported ==
    /\ hist.q # 0
    /\ pc \notin {"query_start", "query_ping", "query_add"}

\* The closures of lua_queue that hold the Query of task `i`.
ClosuresOf(i) ==
    {k \in 1..Len(lua_queue) :
        lua_queue[k].kind \in {"query", "txn_query"} /\ lua_queue[k].query = i}

\* The step ends the query task `i`.
QueryTaskEnds(i) ==
    /\ i \in DOMAIN tasks
    /\ tasks[i].kind \in {"query", "txn_query"}
    /\ i \notin DOMAIN tasks'

\* The step puts the closure of a query on lua_queue.
QueryClosurePushed ==
    /\ Pushed(lua_queue, lua_queue')
    /\ lua_queue'[Len(lua_queue')].kind \in {"query", "txn_query"}

\* C31: each query gets its outcome exactly once, and it goes to its own
\* continuation.  In the command handler: no command has two outcomes, and
\* once query() is past its add the query has exactly one, the not-open
\* error when query.start never ran and the result of query.start when it
\* ran (also when a reconnection followed), under the serial of the command
\* being handled.  In Conn and Transaction: the step that ends the task of a
\* query pushes one closure, which holds that Query and the coroutine of its
\* transaction; no other step pushes such a closure; no query task dies
\* without one; a closure is on the queue at most once, and running the
\* closure of a transaction's query resumes the coroutine it holds.
C31_OneDeliveryToOwnContinuation ==
    /\ [](\A s \in Serials : Len(outcomes(s)) <= 1)
    /\ [](QueryReported =>
            outcomes(hist.q) =
               <<IF execs[hist.q] = 0 THEN Failed(NotOpenErr) ELSE result>>)
    /\ [](\A i \in DOMAIN tasks :
            /\ ClosuresOf(i) = {}
            /\ tasks[i].kind \in {"query", "txn_query"} =>
                  tasks[i].pc # "panicked")
    /\ [](\A i \in 1..spawned : Cardinality(ClosuresOf(i)) <= 1)
    /\ [][/\ Pushed(task_queue, task_queue') =>
                task_queue'[Len(task_queue')].serial = cur'.serial
          /\ \A i \in DOMAIN tasks : QueryTaskEnds(i) =>
                /\ lua_queue' = Append(lua_queue, lua_queue'[Len(lua_queue')])
                /\ lua_queue'[Len(lua_queue')].kind = tasks[i].kind
                /\ lua_queue'[Len(lua_queue')].query = i
                /\ lua_queue'[Len(lua_queue')].txn = tasks[i].txn
          /\ QueryClosurePushed => QueryTaskEnds(lua_queue'[Len(lua_queue')].query)
          /\ (Polled(lua_queue, lua_queue') /\ Head(lua_queue).kind = "txn_query")
                => /\ running' = Head(lua_queue).txn
                   /\ co'[running'] = "running"
                   /\ co[running'] # "running"
         ]_vars

\* C31 witness: the outcomes of two queries wait for the host, each once:
\* the not-open error of one, and the error the server gave the other, whose
\* handler has returned.
C31_Witness ==
    \E k \in 1..Len(task_queue) :
        /\ task_queue[k].kind = "query"
        /\ task_queue[k].serial # hist.q
        /\ task_queue[k].res = Failed(NotOpenErr)
        /\ outcomes(task_queue[k].serial) = <<Failed(NotOpenErr)>>
        /\ QueryReported
        /\ pc = "idle"
        /\ outcomes(hist.q) = <<Failed(DbErr(1064))>>

\* The errors the classification calls transient: the seven kinds of
\* transport error, a secure-transport error whose text has one of the three
\* phrases, and a database error whose MySQL number is one of the five.
ListedTransient(e) ==
    \/ /\ e.variant = "Io"
       /\ e.kind \in {"ConnectionRefused", "ConnectionReset",
                      "ConnectionAborted", "NotConnected", "TimedOut",
                      "BrokenPipe", "UnexpectedEof"}
    \/ /\ e.variant = "Tls"
       /\ \E k \in 1..Len(e.msg) :
             e.msg[k] \in {"handshake failed", "connection closed",
                           "unexpected EOF"}
    \/ /\ e.variant = "Database"
       /\ e.mysql
       /\ e.code \in {2002, 2003, 2006, 2013, 2055}

\* C32: the classifier returns transient exactly for the listed errors: the
\* step in which query.start returns goes on to the confirming ping, and
\* records the error as transient, exactly when query.start failed with a
\* listed error; with every other error, and with no error, the result goes
\* to the task queue at once and query() returns.
C32_TransientExactlyListed ==
    [][pc = "query_start" =>
          LET listed == ~result'.ok /\ ListedTransient(result'.err) IN
             /\ (pc' = "query_ping") = listed
             /\ hist'.transient = listed
             /\ (pc' = "idle" /\ task_queue' = add("query", cur.serial, result'))
                   = ~listed
      ]_vars

\* C32 witness: a secure-transport error whose text has "connection closed"
\* after another phrase was classified transient, and the ping follows.
C32_Witness ==
    /\ pc = "query_ping"
    /\ hist.transient
    /\ result.err.variant = "Tls"
    /\ Len(result.err.msg) = 2
    /\ result.err.msg[1] = "certificate expired"
    /\ result.err.msg[2] = "connection closed"

\* The query being handled, or last handled, failed with a transient error
\* and its confirming ping failed.
PingFailed ==
    /\ hist.q # 0
    /\ hist.pings = 1
    /\ ~hist.pingok

\* ConnMeta still reads as the connection the query was started on.
ReadsLostConnection ==
    /\ meta.state = "Connected"
    /\ meta.id = hist.id0

\* C33: after a transient error and a failed confirming ping, NotConnected
\* is stored before the callback of the query is put on the task queue: the
\* step that adds it is taken with NotConnected already stored and leaves
\* it, and while the callback waits on the task queue or has been run the
\* state never reads Connected with the generation id of the lost
\* connection.
C33_NotConnectedBeforeCallback ==
    /\ []((PingFailed /\ outcomes(hist.q) # <<>>) => ~ReadsLostConnection)
    /\ [][(PingFailed /\ outcomes(hist.q) = <<>> /\ outcomes(hist.q)' # <<>>) =>
              /\ meta.state = "NotConnected"
              /\ meta' = meta
              /\ hist.state0 = "Connected"
              /\ outcomes(hist.q)' = <<result>>
              /\ TransientOutcome(result)
         ]_vars

\* C33 witness: the host has run the error callback of such a query while
\* the handler sleeps before a reconnect attempt, and the state is
\* NotConnected.
C33_Witness ==
    /\ PingFailed
    /\ delivered[hist.q] = <<result>>
    /\ pc = "query_sleep"
    /\ hist.state0 = "Connected"
    /\ meta.state = "NotConnected"

\* Transaction::finalize is at work on transaction `t`: open is cleared and
\* the guard not yet taken.
InFinalize(t) == Finalizes(t, {"commit", "autocommit", "autocommit_failed"}) # {}

\* C34: the life of a transaction only moves forward: a transaction that
\* exists stays, finalizing once set stays set, open once cleared stays
\* cleared, the guard once given up is never held again, the guard is given
\* up only by a finalize that cleared open, and a transaction that is not
\* open holds the guard only while that finalize is at work.
C34_LifecycleForward ==
    /\ [](\A t \in DOMAIN txns :
            (~txns[t].open /\ ~InFinalize(t)) => ~txns[t].conn_guard)
    /\ [][\A t \in DOMAIN txns :
            /\ t \in DOMAIN txns'
            /\ txns[t].finalizing => txns'[t].finalizing
            /\ ~txns[t].open => ~txns'[t].open
            /\ ~txns[t].conn_guard => ~txns'[t].conn_guard
            /\ (txns[t].conn_guard /\ ~txns'[t].conn_guard) =>
                  (~txns[t].open /\ InFinalize(t))
         ]_vars

\* C34 witness: a transaction went through Commit: finalizing is set, open
\* is cleared, the guard is gone and the finalize is over.
C34_Witness ==
    \E t \in DOMAIN txns :
        /\ txns[t].finalizing
        /\ ~txns[t].open
        /\ ~txns[t].conn_guard
        /\ Finalizes(t, {"spawned", "waiting", "locked", "commit",
                         "autocommit", "autocommit_failed"}) = {}

\* The ordinary queries that were submitted and are not over.
PendingQueries == {i \in DOMAIN tasks : tasks[i].kind = "query"}

\* The step ends the lease of transaction `t`.
LeaseEnds(t) == Leased(t) /\ ~txns'[t].conn_guard

\* C35: an ordinary query submitted while a transaction holds the connection
\* is not lost and does not fail because of the transaction.  Its task
\* waits for the mutex and runs nothing while a transaction holds the lease;
\* the step that ends the lease hands the mutex to the task that waited
\* longest; the task ends only with the closure of its result, and without
\* having run only when there is no connection; and every pending query
\* comes to its end, unless the transaction can never be finalized.
C35_QueryWaitsForTransaction ==
    /\ []<>(PendingQueries = {} \/ CannotComplete)
    /\ [](\A i \in PendingQueries :
            Started(i) => \A t \in DOMAIN txns : ~Leased(t))
    /\ [][/\ \A i \in PendingQueries :
               /\ (tasks[i].pc = "spawned" /\ i \in DOMAIN tasks'
                    /\ tasks'[i].pc # "spawned" /\ mutex.owner # 0)
                     => (tasks'[i].pc = "waiting"
                         /\ mutex'.waiters = Append(mutex.waiters, i))
               /\ tasks[i].pc = "waiting" =>
                     /\ i \in DOMAIN tasks'
                     /\ tasks'[i].pc \in {"waiting", "locked"}
                     /\ tasks'[i].pc = "locked" => mutex'.owner = i
               /\ i \notin DOMAIN tasks' =>
                     /\ QueryClosurePushed
                     /\ lua_queue'[Len(lua_queue')].query = i
                     /\ tasks[i].pc = "executing" \/ inner = None
          /\ \A t \in DOMAIN txns :
               (LeaseEnds(t) /\ mutex.waiters # <<>>) =>
                  /\ mutex'.owner = Head(mutex.waiters)
                  /\ tasks'[Head(mutex.waiters)].pc = "locked"
         ]_vars

\* C35 witness: an ordinary query is first in line for the mutex that a
\* transaction holds, and the COMMIT of that transaction has been sent.
C35_Witness ==
    \E i \in PendingQueries : \E t \in DOMAIN txns :
        /\ Leased(t)
        /\ mutex.owner = t
        /\ tasks[i].pc = "waiting"
        /\ mutex.waiters # <<>>
        /\ Head(mutex.waiters) = i
        /\ \E f \in Finalizes(t, {"autocommit"}) : tasks[f].origin = "call"

\* The Start tasks whose connect_with is in flight.
Connects == {i \in DOMAIN tasks : tasks[i].kind = "start" /\ tasks[i].pc = "connecting"}

\* C36: the state is Connecting only while a connect attempt is in flight.
\* In the command handler Connecting is read only while connect() waits for
\* connect_with, for a Connect command and for a reconnect attempt alike,
\* and the step in which connect_with returns replaces it with Connected or
\* NotConnected.  In Conn it is read only while one Start task waits for
\* connect_with, and the step in which that returns replaces it with
\* Connected or Error.  No other step stores or replaces Connecting.
C36_ConnectingOnlyInFlight ==
    /\ [](meta.state = "Connecting" => pc = "connect_with")
    /\ [](state = "Connecting" => Cardinality(Connects) = 1)
    /\ [](state # "Connecting" => Connects = {})
    /\ [][/\ (pc = "connect_with" /\ pc' # pc) =>
                meta'.state \in {"Connected", "NotConnected"}
          /\ (meta.state # "Connecting" /\ meta'.state = "Connecting") =>
                pc \in {"idle", "connect_close", "query_sleep"}
          /\ \A i \in Connects : StepsFrom(i, "connecting") =>
                state' \in {"Connected", "Error"}
          /\ (state = "Connecting" /\ state' # state) =>
                \E i \in Connects : StepsFrom(i, "connecting")
         ]_vars

\* C36 witness: the second attempt of a reconnection is in flight and the
\* state is Connecting again, the first attempt having left NotConnected.
C36_Witness ==
    /\ meta.state = "Connecting"
    /\ pc = "connect_with"
    /\ cur.callback = LUA_NOREF
    /\ hist.attempts = 2
    /\ attempt = 1


\* The call of conn:Start made by task i returns Ok: the task is over and
\* the closure that calls on_connected is queued.
StartReturnsOk(i) ==
    /\ StartEnds(i)
    /\ lua_queue'[Len(lua_queue')].kind = "start"
    /\ lua_queue'[Len(lua_queue')].ok

\* A connection object is installed and the state is Connected.
Installed == state = "Connected" /\ inner # None

\* C37: a Connect request reports success, Conn::start returning Ok with
\* on_connected queued for the next tick, only after a connection object
\* has been installed and the state has been set to Connected, also when it
\* was issued while another Connect on the same handle is in flight.
C37_SuccessOnlyWhenInstalled ==
    [][\A i \in DOMAIN tasks : StartReturnsOk(i) => Installed']_vars

\* The same for the calls of conn:Start that took the lock and made an
\* attempt of their own.
C37_ExceptEarlyReturn ==
    [][\A i \in DOMAIN tasks :
          (StartReturnsOk(i) /\ tasks[i].pc # "spawned") => Installed']_vars



\* A Connect is closing the connection it took out to replace it: connect()
\* and Conn::start at their `close().await`.
ClosingReplaced ==
    \/ pc = "connect_close"
    \/ \E i \in DOMAIN tasks : tasks[i].kind = "start" /\ tasks[i].pc = "closing"

\* C38: in every reachable state, a connection whose state reads Connected
\* holds a connection object, in ConnMeta with the handler's connection and
\* in Conn with the connection under the mutex; there is no point of a
\* connect that replaces a live connection, or of a reconnection, where the
\* state reads Connected and the object is absent or being closed.
C38_ConnectedHoldsObject ==
    /\ meta.state = "Connected" => conn # None
    /\ state = "Connected" => inner # None

\* Outside the close of a replaced connection the state reads Connected
\* only with a connection object held.
C38_ExceptWhileClosing ==
    ~ClosingReplaced => C38_ConnectedHoldsObject



\* A Begin is pending: its task has not ended, or the closure that resumes
\* its coroutine is queued for the tick.
BeginPending ==
    \/ \E i \in DOMAIN tasks : tasks[i].kind = "begin"
    \/ \E k \in 1..Len(lua_queue) : lua_queue[k].kind = "begin"

\* While a transaction holds the lock of the connection the marker names
\* the coroutine of that transaction.
MarkerNamesHolder ==
    \A t \in DOMAIN txns :
        Leased(t) => transaction_coroutine_ref = txns[t].coroutine_ref

\* With no transaction open and no Begin pending the marker is empty.
MarkerEmptyWhenIdle ==
    ((\A t \in DOMAIN txns : ~Leased(t) /\ ~txns[t].open) /\ ~BeginPending)
        => transaction_coroutine_ref = LUA_NOREF

\* C39: the marker of the connection, transaction_coroutine_ref, always
\* matches the lease: while a transaction holds the lock it is the coroutine
\* of that transaction, and with no transaction open and no Begin pending
\* it is LUA_NOREF, also after a failed Begin and after several Begin calls
\* on the same connection.
C39_MarkerMatchesLease ==
    /\ MarkerNamesHolder
    /\ MarkerEmptyWhenIdle

\* With one Begin on the connection, and that one successful, the marker
\* matches the lease.
C39_SingleSuccessfulBegin ==
    (Cardinality(DOMAIN co) <= 1 /\ \A c \in DOMAIN co : ~FailedBegin(c))
        => C39_MarkerMatchesLease



\* Task i is at a statement sent through its transaction: the query or the
\* ping of the transaction, or COMMIT / ROLLBACK and `SET autocommit = 1` of
\* finalize.
ExecutesInTxn(i) ==
    \/ /\ tasks[i].kind \in {"txn_query", "txn_ping"}
       /\ tasks[i].pc = "executing"
    \/ /\ tasks[i].kind = "finalize"
       /\ tasks[i].pc \in {"commit", "autocommit", "autocommit_failed"}

\* Task i holds its Transaction and is about to evaluate get_connection!.
AtGetConnection(i) ==
    /\ tasks[i].pc = "locked"
    /\ \/ tasks[i].kind \in {"txn_query", "txn_ping"}
       \/ tasks[i].kind = "finalize" /\ txns[tasks[i].txn].open

\* Transaction t holds the guard of the connection, and the connection
\* object is there.
GuardAndConnection(t) ==
    /\ txns[t].conn_guard
    /\ mutex.owner = t
    /\ inner # None

\* C40: whenever a statement is executed through a transaction (query,
\* ping, COMMIT or ROLLBACK) the transaction holds the lock guard of the
\* connection and the guarded connection object exists; the guard is
\* released only by finalize, after open was cleared; so get_connection!
\* never finds the guard or the connection missing and no task panics,
\* under every interleaving of query, ping, commit, rollback, coroutine end
\* and garbage collection.
C40_GuardHeldWhileExecuting ==
    /\ [](\A i \in DOMAIN tasks :
            /\ (ExecutesInTxn(i) \/ AtGetConnection(i))
                  => GuardAndConnection(tasks[i].txn)
            /\ tasks[i].pc # "panicked")
    /\ [][\A t \in DOMAIN txns :
            (txns[t].conn_guard /\ ~txns'[t].conn_guard) =>
               /\ ~txns[t].open
               /\ \E i \in DOMAIN tasks :
                     /\ tasks[i].kind = "finalize"
                     /\ tasks[i].txn = t
                     /\ StepsFrom(i, tasks[i].pc)
                     /\ tasks[i].pc \in {"autocommit", "autocommit_failed"}
         ]_vars

\* C40 witness: the rollback that follows the end of the coroutine is at
\* its statement, with the guard, after an earlier task of the transaction
\* went through the same guard and ended.
C40_Witness ==
    \E i \in DOMAIN tasks :
        /\ tasks[i].kind = "finalize"
        /\ tasks[i].origin = "resume"
        /\ tasks[i].pc = "commit"
        /\ GuardAndConnection(tasks[i].txn)
        /\ \E j \in 1..spawned : j \notin DOMAIN tasks /\ j > tasks[i].txn /\ j < i


====
